---- MODULE Spec2Model ----
(***************************************************************************)
(* A model of sesh, the semantic shell: the statement pipeline (comment    *)
(* stripping, line and statement splitting, variable substitution,         *)
(* tokenizing, redirection classification), alias expansion, the variable  *)
(* garbage collector, the evaluator with its builtins, and the interactive *)
(* line editor.  Text is modelled by TLA+ strings, read character by       *)
(* character exactly as the Rust code reads them.                          *)
(***************************************************************************)
EXTENDS Integers, Sequences, FiniteSets, TLC

(***************************************************************************)
(* Text primitives of the Rust standard library used by the source.        *)
(***************************************************************************)

\* the i-th character of a text, as a text of length one
Char(s, i) == SubSeq(s, i, i)

\* the text from the i-th character on
From(s, i) == SubSeq(s, i, Len(s))

\* the printable ASCII characters in code order from code 32 to code 95;
\* code 96, the backtick, cannot be written in a TLA+ string and occurs in
\* no text of the model
PrintableLow ==
  " !\"#$%&'()*+,-./0123456789:;<=>?@ABCDEFGHIJKLMNOPQRSTUVWXYZ[\\]^_"

\* the printable ASCII characters from code 97 on
PrintableHigh == "abcdefghijklmnopqrstuvwxyz{|}~"

\* the escape character, byte 27
Esc == ""

\* the end-of-text character, byte 3, which the terminal sends for ctrl+c
Etx == ""

\* the byte values of the characters of the model
Codes ==
  [c \in {Esc, Etx, "\t", "\n", "\r"}
          \cup {Char(PrintableLow, i) : i \in 1..Len(PrintableLow)}
          \cup {Char(PrintableHigh, i) : i \in 1..Len(PrintableHigh)} |->
     IF c = Esc THEN 27
     ELSE IF c = Etx THEN 3
     ELSE IF c = "\t" THEN 9
     ELSE IF c = "\n" THEN 10
     ELSE IF c = "\r" THEN 13
     ELSE IF \E i \in 1..Len(PrintableLow) : Char(PrintableLow, i) = c
          THEN 31 + (CHOOSE i \in 1..Len(PrintableLow) : Char(PrintableLow, i) = c)
          ELSE 96 + (CHOOSE i \in 1..Len(PrintableHigh) : Char(PrintableHigh, i) = c)]

\* the byte value of a character: String comparison is bytewise
Ord(c) == Codes[c]

\* the ordering of str::cmp: -1 less, 0 equal, 1 greater
RECURSIVE StrCmp(_, _)
StrCmp(a, b) ==
  IF Len(a) = 0 /\ Len(b) = 0 THEN 0
  ELSE IF Len(a) = 0 THEN -1
  ELSE IF Len(b) = 0 THEN 1
  ELSE IF Ord(Char(a, 1)) < Ord(Char(b, 1)) THEN -1
  ELSE IF Ord(Char(a, 1)) > Ord(Char(b, 1)) THEN 1
  ELSE StrCmp(Tail(a), Tail(b))

\* char::is_whitespace on the characters the model uses
IsWhitespace(c) == c \in {" ", "\t", "\n", "\r"}

RECURSIVE TrimStart(_)
TrimStart(s) ==
  IF Len(s) > 0 /\ IsWhitespace(Char(s, 1)) THEN TrimStart(Tail(s)) ELSE s

RECURSIVE TrimEnd(_)
TrimEnd(s) ==
  IF Len(s) > 0 /\ IsWhitespace(Char(s, Len(s)))
  THEN TrimEnd(SubSeq(s, 1, Len(s) - 1)) ELSE s

\* str::trim
Trim(s) == TrimEnd(TrimStart(s))

\* str::starts_with
StartsWith(s, p) == Len(p) <= Len(s) /\ SubSeq(s, 1, Len(p)) = p

\* str::contains
RECURSIVE Contains(_, _)
Contains(s, p) ==
  IF Len(s) < Len(p) THEN FALSE
  ELSE StartsWith(s, p) \/ Contains(Tail(s), p)

\* str::replace with a non-empty pattern: matches taken left to right
RECURSIVE Replace(_, _, _)
\* the position of the first occurrence of p in s, 0 when absent
FindText(s, p) ==
  IF \E i \in 1..(Len(s) - Len(p) + 1) : SubSeq(s, i, i + Len(p) - 1) = p
  THEN CHOOSE i \in 1..(Len(s) - Len(p) + 1) :
         /\ SubSeq(s, i, i + Len(p) - 1) = p
         /\ \A j \in 1..(i - 1) : SubSeq(s, j, j + Len(p) - 1) # p
  ELSE 0

\* the text after the first occurrence of from, which starts at k
ReplaceFrom(s, from, to, k) ==
  IF k = 0 THEN s
  ELSE SubSeq(s, 1, k - 1) \o to \o Replace(From(s, k + Len(from)), from, to)

\* str::replace with a non-empty pattern: matches taken left to right
Replace(s, from, to) == ReplaceFrom(s, from, to, FindText(s, from))

\* the position of the first occurrence of character c in s, 0 when absent
FindChar(s, c) ==
  IF \E i \in 1..Len(s) : Char(s, i) = c
  THEN CHOOSE i \in 1..Len(s) :
         Char(s, i) = c /\ \A j \in 1..(i - 1) : Char(s, j) # c
  ELSE 0

\* str::split on a one-character separator
RECURSIVE Split(_, _)
Split(s, c) ==
  LET k == FindChar(s, c)
  IN IF k = 0 THEN <<s>>
     ELSE <<SubSeq(s, 1, k - 1)>> \o Split(From(s, k + 1), c)

\* str::split_once: found tells whether the separator occurs
SplitOnce(s, c) ==
  LET k == FindChar(s, c)
  IN IF k = 0 THEN [found |-> FALSE, l |-> s, r |-> ""]
     ELSE [found |-> TRUE, l |-> SubSeq(s, 1, k - 1), r |-> From(s, k + 1)]

Digits == {"0", "1", "2", "3", "4", "5", "6", "7", "8", "9"}

RECURSIVE DigitsValue(_, _)
DigitsValue(s, acc) ==
  IF Len(s) = 0 THEN acc
  ELSE DigitsValue(Tail(s), acc * 10 + (Ord(Char(s, 1)) - 48))

RECURSIVE StripZeros(_)
StripZeros(s) ==
  IF Len(s) > 1 /\ Char(s, 1) = "0" THEN StripZeros(Tail(s)) ELSE s

\* the value of a digit string without leading zeros, when it fits i32
ParseMagnitude(neg, sig) ==
  IF neg /\ sig = "2147483648" THEN [ok |-> TRUE, n |-> (0 - 2147483647) - 1]
  ELSE IF Len(sig) < 10 \/ (Len(sig) = 10 /\ StrCmp(sig, "2147483647") <= 0)
       THEN [ok |-> TRUE, n |-> IF neg THEN 0 - DigitsValue(sig, 0)
                                ELSE DigitsValue(sig, 0)]
  ELSE [ok |-> FALSE, n |-> 0]

\* the text after the sign must be digits, at least one
ParseSigned(neg, body) ==
  IF Len(body) > 0 /\ \A i \in 1..Len(body) : Char(body, i) \in Digits
  THEN ParseMagnitude(neg, StripZeros(body))
  ELSE [ok |-> FALSE, n |-> 0]

\* str::parse::<i32>: an optional sign, then at least one digit, in range
ParseI32(s) ==
  IF Len(s) > 0 /\ Char(s, 1) \in {"+", "-"}
  THEN ParseSigned(Char(s, 1) = "-", Tail(s))
  ELSE ParseSigned(FALSE, s)

RECURSIVE NatToString(_)
NatToString(n) ==
  IF n < 10 THEN Char("0123456789", n + 1)
  ELSE NatToString(n \div 10) \o Char("0123456789", (n % 10) + 1)

\* i32::to_string
IntToString(n) == IF n < 0 THEN "-" \o NatToString(0 - n) ELSE NatToString(n)

\* the concatenation of a sequence of sequences
RECURSIVE Concat(_)
Concat(ss) == IF Len(ss) = 0 THEN <<>> ELSE Head(ss) \o Concat(Tail(ss))

\* Vec::remove
RemoveAt(s, i) == SubSeq(s, 1, i - 1) \o SubSeq(s, i + 1, Len(s))

\* Vec::insert
InsertAt(s, i, e) == SubSeq(s, 1, i - 1) \o <<e>> \o SubSeq(s, i, Len(s))

\* Vec::swap_remove: the last element takes the place of the removed one
SwapRemove(s, i) ==
  IF i = Len(s) THEN SubSeq(s, 1, Len(s) - 1)
  ELSE [SubSeq(s, 1, Len(s) - 1) EXCEPT ![i] = s[Len(s)]]

\* Vec::reverse
Reverse(s) == [i \in 1..Len(s) |-> s[Len(s) + 1 - i]]

\* <[T]>::sort_by: a stable sort under a comparison giving -1, 0 or 1; an
\* element goes after the elements that compare less and after the equal
\* elements that stood before it
SortBy(s, Cmp(_, _)) ==
  LET pos == [i \in 1..Len(s) |->
                1 + Cardinality({j \in 1..Len(s) :
                      \/ Cmp(s[j], s[i]) < 0
                      \/ (Cmp(s[j], s[i]) = 0 /\ j < i)})]
  IN [k \in 1..Len(s) |-> s[CHOOSE i \in 1..Len(s) : pos[i] = k]]

\* Vec::dedup: of each run of consecutive equal elements the first is kept
RECURSIVE Dedup(_)
Dedup(s) ==
  IF Len(s) <= 1 THEN s
  ELSE IF s[Len(s)] = s[Len(s) - 1] THEN Dedup(SubSeq(s, 1, Len(s) - 1))
       ELSE Append(Dedup(SubSeq(s, 1, Len(s) - 1)), s[Len(s)])

(***************************************************************************)
(* The data model.                                                         *)
(***************************************************************************)

\* struct ShellVar
ShellVar(name, value) == [name |-> name, value |-> value]

\* struct Alias
Alias(name, to) == [name |-> name, to |-> to]

\* enum Focus: the text variant and the list variant
FocusStr(s) == [tag |-> "Str", s |-> s, v |-> <<>>]
FocusVec(v) == [tag |-> "Vec", s |-> "", v |-> v]

\* enum Indirect; n is used by Fd and p by Path
Indirect(t, n, p) == [t |-> t, n |-> n, p |-> p]

\* enum IndirectRes, and the Err side of the Result around it (kind "Err")
IndirectRes(kind, s, ind) == [kind |-> kind, s |-> s, ind |-> ind]

NoIndirect == Indirect("Default", 0, "")

\* IndirectRes::is_statement
is_statement(v) == v.kind = "Statement"

\* Result::is_err
is_err(v) == v.kind = "Err"

\* the variants that name a stream
StreamKinds == {"Stdin", "Stdout", "Stderr"}

(***************************************************************************)
(* The statement pipeline.                                                 *)
(***************************************************************************)

\* the target that is a file descriptor when the text parses as one, else
\* a path
FdOrPath(r, fd) ==
  IF fd.ok THEN Indirect("Fd", fd.n, "") ELSE Indirect("Path", 0, r)

\* the inner function of is_indirect: the target of a redirection
is_indirect_inner(l, r) ==
  IF r = "" THEN
    (IF l = "0" THEN Indirect("PrevStatement", 0, "")
     ELSE Indirect("NextStatement", 0, ""))
  ELSE IF l # "0" /\ r = "1" THEN Indirect("Stdout", 0, "")
  ELSE IF l # "0" /\ r = "2" THEN Indirect("Stderr", 0, "")
  ELSE FdOrPath(r, ParseI32(r))

\* is_indirect on a token split at its first "@"
\* a faulty variant for sensitivity checks: a token with another text
\* before its "@" is a plain word
is_indirect_split_plain(statement, i) ==
  IF ~i.found \/ i.l \notin {"0", "1", "2"}
  THEN IndirectRes("Statement", statement, NoIndirect)
  ELSE IndirectRes(IF i.l = "0" THEN "Stdin"
                   ELSE IF i.l = "1" THEN "Stdout" ELSE "Stderr",
                   "", is_indirect_inner(i.l, i.r))

is_indirect_split(statement, i) ==
  IF ~i.found THEN IndirectRes("Statement", statement, NoIndirect)
  ELSE IF i.l \notin {"0", "1", "2"}
    THEN IndirectRes("Err", "unknown indirect from", NoIndirect)
  ELSE IndirectRes(IF i.l = "0" THEN "Stdin"
                   ELSE IF i.l = "1" THEN "Stdout" ELSE "Stderr",
                   "", is_indirect_inner(i.l, i.r))

\* whether a token is a redirection, and to what
is_indirect(statement) == is_indirect_split(statement, SplitOnce(statement, "@"))

\* the characters that open a quoted region or a group; the source also
\* lists the backtick
QuoteChars == {"\"", "'", "(", "["}

\* the character that closes the region opened by ch
ClosingChar(ch) == IF ch = "(" THEN ")" ELSE IF ch = "[" THEN "]" ELSE ch

\* the text pushed on the current token
PushOut(st, text) == [st.out EXCEPT ![st.i + 1] = @ \o text]

\* a faulty variant for sensitivity checks: a bracket opens a group
\* wherever it stands
split_statement_char_bracket(st, ch) ==
  LET escape == (ch = "\\" /\ ~st.in_str) \/ st.escape
  IN IF st.in_str /\ st.in_ch = ch THEN
       [st EXCEPT !.in_str = FALSE,
                  !.out = IF ch = "]" THEN PushOut(st, ch)
                          ELSE IF ch = ")" /\ st.f = st.str_idx + 1
                            THEN PushOut(st, "()")
                          ELSE st.out,
                  !.escape = FALSE,
                  !.f = st.f + 1]
     ELSE IF ~(ch \notin QuoteChars \/ escape \/ st.in_str) THEN
       [st EXCEPT !.in_str = TRUE,
                  !.in_ch = ClosingChar(ch),
                  !.out = IF ch = "[" THEN PushOut(st, ch) ELSE st.out,
                  !.escape = FALSE,
                  !.str_idx = st.f,
                  !.f = st.f + 1]
     ELSE IF ~st.in_str /\ ch = " " THEN
       [st EXCEPT !.i = st.i + 1,
                  !.out = IF st.i + 1 >= Len(st.out) THEN Append(st.out, "")
                          ELSE st.out,
                  !.escape = FALSE,
                  !.f = st.f + 1]
     ELSE
       [st EXCEPT !.out = PushOut(st, ch),
                  !.escape = FALSE,
                  !.f = st.f + 1]

\* one turn of the character loop of split_statement
split_statement_char(st, ch) ==
  LET escape == (ch = "\\" /\ ~st.in_str) \/ st.escape
  IN IF st.in_str /\ st.in_ch = ch THEN
       [st EXCEPT !.in_str = FALSE,
                  !.out = IF ch = "]" THEN PushOut(st, ch)
                          ELSE IF ch = ")" /\ st.f = st.str_idx + 1
                            THEN PushOut(st, "()")
                          ELSE st.out,
                  !.escape = FALSE,
                  !.f = st.f + 1]
     ELSE IF ~(ch \notin QuoteChars \/ escape \/ st.in_str
               \/ (ch = "[" /\ st.f <= 1)) THEN
       [st EXCEPT !.in_str = TRUE,
                  !.in_ch = ClosingChar(ch),
                  !.out = IF ch = "[" THEN PushOut(st, ch) ELSE st.out,
                  !.escape = FALSE,
                  !.str_idx = st.f,
                  !.f = st.f + 1]
     ELSE IF ~st.in_str /\ ch = " " THEN
       [st EXCEPT !.i = st.i + 1,
                  !.out = IF st.i + 1 >= Len(st.out) THEN Append(st.out, "")
                          ELSE st.out,
                  !.escape = FALSE,
                  !.f = st.f + 1]
     ELSE
       [st EXCEPT !.out = PushOut(st, ch),
                  !.escape = FALSE,
                  !.f = st.f + 1]

\* the character loop of split_statement: the characters in order, taken
\* by halves with the state after the first half computed before the second
\* is entered, which keeps the evaluation shallow
RECURSIVE split_statement_loop(_, _)
split_statement_loop(st, rest) ==
  IF Len(rest) = 0 THEN st
  ELSE IF Len(rest) = 1 THEN split_statement_char(st, rest)
  ELSE LET mid == split_statement_loop(st, SubSeq(rest, 1, Len(rest) \div 2))
       IN IF mid.f >= 0
          THEN split_statement_loop(mid, SubSeq(rest, Len(rest) \div 2 + 1, Len(rest)))
          ELSE mid

\* a faulty variant for sensitivity checks: the end of the statement closes
\* a token as a space does
split_statement_out_padded(statement) ==
  Append(split_statement_loop([out |-> <<"">>, i |-> 0, in_str |-> FALSE,
                               in_ch |-> " ", escape |-> FALSE, f |-> 0,
                               str_idx |-> -1], statement).out, "")

\* the tokens of a statement as texts, before the redirection classification
split_statement_out(statement) ==
  split_statement_loop([out |-> <<"">>, i |-> 0, in_str |-> FALSE,
                        in_ch |-> " ", escape |-> FALSE, f |-> 0,
                        str_idx |-> -1], statement).out

\* split a statement into tokens, each classified by is_indirect
split_statement(statement) ==
  LET out == split_statement_out(statement)
  IN [k \in 1..Len(out) |-> is_indirect(Trim(out[k]))]

\* one turn of the character loop of remove_comments
remove_comments_char(st, ch) ==
  IF st.in_comment
  THEN (IF ch = "\n" THEN [out |-> st.out \o ch, in_comment |-> FALSE] ELSE st)
  ELSE IF ch = "#" THEN [st EXCEPT !.in_comment = TRUE]
  ELSE [st EXCEPT !.out = @ \o ch]

\* the character loop of remove_comments, taken by halves
RECURSIVE remove_comments_loop(_, _)
remove_comments_loop(st, rest) ==
  IF Len(rest) = 0 THEN st
  ELSE IF Len(rest) = 1 THEN remove_comments_char(st, rest)
  ELSE LET mid == remove_comments_loop(st, SubSeq(rest, 1, Len(rest) \div 2))
       IN IF mid.in_comment \in BOOLEAN
          THEN remove_comments_loop(mid, SubSeq(rest, Len(rest) \div 2 + 1, Len(rest)))
          ELSE mid

\* removes comments from a statement
remove_comments(statement) ==
  remove_comments_loop([out |-> "", in_comment |-> FALSE], statement).out

\* the while loop of split_lines that grows out up to index i
RECURSIVE PadLines(_, _)
PadLines(out, i) == IF i >= Len(out) THEN PadLines(Append(out, ""), i) ELSE out

\* a faulty variant for sensitivity checks: the backslash escapes one
\* newline, after which the flag is cleared
split_lines_char_once(st, ch) ==
  IF ch = "\n" /\ ~st.escape_line THEN [st EXCEPT !.i = @ + 1]
  ELSE [st EXCEPT !.out = [PadLines(st.out, st.i) EXCEPT ![st.i + 1] = @ \o ch],
                  !.escape_line = ch = "\\"]

\* one turn of the character loop of split_lines
split_lines_char(st, ch) ==
  IF ch = "\n" /\ ~st.escape_line THEN [st EXCEPT !.i = @ + 1]
  ELSE [st EXCEPT !.out = [PadLines(st.out, st.i) EXCEPT ![st.i + 1] = @ \o ch],
                  !.escape_line = @ \/ ch = "\\"]

\* the character loop of split_lines, taken by halves
RECURSIVE split_lines_loop(_, _)
split_lines_loop(st, rest) ==
  IF Len(rest) = 0 THEN st
  ELSE IF Len(rest) = 1 THEN split_lines_char(st, rest)
  ELSE LET mid == split_lines_loop(st, SubSeq(rest, 1, Len(rest) \div 2))
       IN IF mid.i >= 0
          THEN split_lines_loop(mid, SubSeq(rest, Len(rest) \div 2 + 1, Len(rest)))
          ELSE mid

\* split a text into logical lines
split_lines(lines) ==
  split_lines_loop([out |-> <<"">>, i |-> 0, escape_line |-> FALSE], lines).out

\* split a text into statements
split_statements(statement) ==
  LET lines == split_lines(statement)
      parts == [k \in 1..Len(lines) |-> Split(lines[k], ";")]
      trimmed == [k \in 1..Len(parts) |->
                    [j \in 1..Len(parts[k]) |-> Trim(parts[k][j])]]
  IN Concat(trimmed)

\* impl Display for Focus
RECURSIVE FocusFmt(_)
RECURSIVE FocusJoin(_)
FocusJoin(v) ==
  IF Len(v) = 0 THEN ""
  ELSE IF Len(v) = 1 THEN FocusFmt(v[1])
  ELSE FocusFmt(v[1]) \o ", " \o FocusJoin(Tail(v))
FocusFmt(focus) ==
  IF focus.tag = "Str"
  THEN "str:\"" \o Replace(focus.s, "\n", "\\n") \o "\""
  ELSE "list:[" \o FocusJoin(focus.v) \o "]"

\* a faulty variant for sensitivity checks: no substitution at all
substitute_vars_off(statement, env, foc) == statement

RECURSIVE substitute_vars_loop(_, _)
substitute_vars_loop(out, env) ==
  IF Len(env) = 0 THEN out
  ELSE substitute_vars_loop(Replace(out, "$" \o env[1].name, env[1].value),
                            Tail(env))

\* substitute in shell variables, in table order, then the focus
substitute_vars(statement, env, foc) ==
  Replace(substitute_vars_loop(statement, env), "!FOCUS", FocusFmt(foc))

\* the indexes, counted from 0, that garbage_collect_vars marks on the
\* reversed table: every binding whose name was seen earlier
RECURSIVE remove_indexes_from(_, _, _)
remove_indexes_from(rev, i, seen) ==
  IF i >= Len(rev) THEN <<>>
  ELSE IF rev[i + 1].name \in seen
       THEN <<i>> \o remove_indexes_from(rev, i + 1, seen)
       ELSE remove_indexes_from(rev, i + 1, seen \cup {rev[i + 1].name})

\* the removal loop of garbage_collect_vars: Vec::remove panics when the
\* index is not below the length
RECURSIVE remove_marked(_, _)
remove_marked(env, idxs) ==
  IF Len(idxs) = 0 THEN [env |-> env, panic |-> FALSE]
  ELSE IF Head(idxs) >= Len(env) THEN [env |-> env, panic |-> TRUE]
  ELSE remove_marked(RemoveAt(env, Head(idxs) + 1), Tail(idxs))

\* the comparison of two bindings by name
NameCmp(v1, v2) == StrCmp(v1.name, v2.name)

\* a faulty variant for sensitivity checks: without the reversal, the
\* earlier binding of a name is the one kept
garbage_collect_vars_unreversed(shell_env) ==
  LET removed == remove_marked(shell_env, remove_indexes_from(shell_env, 0, {}))
  IN IF removed.panic THEN removed
     ELSE [env |-> SortBy(removed.env, NameCmp), panic |-> FALSE]

\* remove duplicates, keeping later ones; panic tells that the pass panicked
garbage_collect_vars(shell_env) ==
  LET rev == Reverse(shell_env)
      removed == remove_marked(rev, remove_indexes_from(rev, 0, {}))
  IN IF removed.panic THEN removed
     ELSE [env |-> SortBy(removed.env, NameCmp), panic |-> FALSE]

(***************************************************************************)
(* The part of eval that prepares one statement: classification of the     *)
(* tokens, the redirection set, alias expansion.                           *)
(***************************************************************************)

\* the position of a variant in the derived ordering of IndirectRes
VariantRank(v) ==
  IF v.kind = "Statement" THEN 0
  ELSE IF v.kind = "Stdin" THEN 1
  ELSE IF v.kind = "Stdout" THEN 2
  ELSE 3

\* the closure given to sort_by: two directives of one stream are Equal,
\* directives of different streams compare by variant
IndirectCmp(v1, v2) ==
  IF v1.kind = "Stderr" /\ v2.kind = "Stderr" THEN 0
  ELSE IF v1.kind = "Stdout" /\ v2.kind = "Stdout" THEN 0
  ELSE IF v1.kind = "Stdin" /\ v2.kind = "Stdin" THEN 0
  ELSE IF VariantRank(v1) < VariantRank(v2) THEN -1
  ELSE IF VariantRank(v1) > VariantRank(v2) THEN 1
  ELSE 0

\* the redirection set of a statement: filter, sort_by, dedup
Indirects(statement_split) ==
  Dedup(SortBy(SelectSeq(statement_split, LAMBDA v : ~is_statement(v)),
               IndirectCmp))

\* the plain tokens of a statement, unwrapped
StatementWords(statement_split) ==
  LET plain == SelectSeq(statement_split, is_statement)
  IN [k \in 1..Len(plain) |-> plain[k].s]

\* the plain tokens of an alias replacement; filter_map drops the errors
AliasWords(to) ==
  StatementWords(SelectSeq(split_statement(to), LAMBDA v : ~is_err(v)))

\* the insert loop of the alias expansion: item k of the replacement, after
\* its first word, is inserted at index k of the token list
RECURSIVE InsertWords(_, _, _)
InsertWords(statement_split, items, i) ==
  IF Len(items) = 0 THEN statement_split
  ELSE InsertWords(InsertAt(statement_split, i + 2, Head(items)),
                   Tail(items), i + 1)

\* the loop over the alias table; it goes on after a match, comparing the
\* later aliases with the new program name
RECURSIVE ExpandAliases(_, _, _)

\* one alias that matches the program name: its replacement is spliced in
\* and the loop goes on with its first word as the program name
ExpandAlias(rest, to_split, statement_split) ==
  IF Len(to_split) = 0
  THEN [program_name |-> "", statement_split |-> statement_split, panic |-> TRUE]
  ELSE ExpandAliases(rest, to_split[1],
                     InsertWords(statement_split, Tail(to_split), 0))

ExpandAliases(aliases, program_name, statement_split) ==
  IF Len(aliases) = 0
  THEN [program_name |-> program_name, statement_split |-> statement_split,
        panic |-> FALSE]
  ELSE IF program_name = Head(aliases).name
  THEN ExpandAlias(Tail(aliases), AliasWords(Head(aliases).to), statement_split)
  ELSE ExpandAliases(Tail(aliases), program_name, statement_split)

\* the names of the builtin registry, in its order
BUILTINS ==
  <<"cd", "exit", "echo", "alias", "help", "source", "loadf", "splitf", "set",
    "dumpvars", "unset", "copyf", "pastef", "setf", "getf", "()", "nop", "if",
    "while", "gay">>

IsBuiltin(program_name) == \E k \in 1..Len(BUILTINS) : BUILTINS[k] = program_name

\* what eval finds out about one statement before it runs it
\*   what = "error"     a token is not a valid redirection
\*          "indirect"  the first token is a redirection
\*          "empty"     nothing to run
\*          "panic"     the alias expansion panicked
\*          "builtin"   the program name is in the registry
\*          "external"  a process is to be spawned
NoStatement ==
  [what |-> "empty", message |-> "", indirects |-> <<>>, words |-> <<>>,
   program_name |-> "", statement_split |-> <<>>]

\* the message of the first token that is no valid redirection
FirstErr(split) ==
  (split[CHOOSE k \in 1..Len(split) :
           is_err(split[k]) /\ \A j \in 1..(k - 1) : ~is_err(split[j])]).s

\* the statement after the alias loop: the registry decides the path
PrepareExpanded(indirects, words, expanded) ==
  [what |-> IF expanded.panic THEN "panic"
            ELSE IF IsBuiltin(expanded.program_name) THEN "builtin"
            ELSE "external",
   message |-> "", indirects |-> indirects, words |-> words,
   program_name |-> expanded.program_name,
   statement_split |-> expanded.statement_split]

\* the statement from its plain tokens on
PrepareWords(statement, aliases, indirects, words) ==
  IF statement = "" \/ words[1] = ""
  THEN [NoStatement EXCEPT !.indirects = indirects, !.words = words]
  ELSE PrepareExpanded(indirects, words, ExpandAliases(aliases, words[1], words))

\* the statement from its classified tokens on
PrepareSplit(statement, aliases, split) ==
  IF \E k \in 1..Len(split) : is_err(split[k])
  THEN [NoStatement EXCEPT !.what = "error", !.message = FirstErr(split)]
  ELSE IF ~is_statement(split[1])
  THEN [NoStatement EXCEPT !.what = "indirect",
                           !.message = "program name is indirect"]
  ELSE PrepareWords(statement, aliases, Indirects(split), StatementWords(split))

Prepare(statement, aliases) ==
  PrepareSplit(statement, aliases, split_statement(statement))

(***************************************************************************)
(* The builtins.  A handler gives the state it leaves, its status, the     *)
(* lines it prints, and how it ends: "return", "panic" (the process dies   *)
(* of a Rust panic) or "exit" (std::process::exit).                        *)
(***************************************************************************)

Returned(st, status, out) ==
  [state |-> st, status |-> status, out |-> out, end |-> "return"]

Panicked(st) == [state |-> st, status |-> 101, out |-> <<>>, end |-> "panic"]

\* the character with a byte value, for the values the texts of the model use
Chr(code) ==
  IF code = 27 THEN Esc
  ELSE IF code = 3 THEN Etx
  ELSE IF code = 9 THEN "\t"
  ELSE IF code = 10 THEN "\n"
  ELSE IF code = 13 THEN "\r"
  ELSE IF code < 96 THEN Char(PrintableLow, code - 31)
  ELSE Char(PrintableHigh, code - 96)

HexDigits == "0123456789abcdef"

\* char::to_ascii_lowercase
ToLower(c) ==
  IF Ord(c) >= 65 /\ Ord(c) <= 90 THEN Chr(Ord(c) + 32) ELSE c

\* u32::from_str_radix(_, 16) on four hexadecimal digits
RECURSIVE HexValue(_, _)
HexValue(s, acc) ==
  IF Len(s) = 0 THEN acc
  ELSE HexValue(Tail(s),
                acc * 16 + (CHOOSE d \in 0..15 : Char(HexDigits, d + 1) = Char(s, 1)))

\* interpret an escaped string; the first error ends the collection
RECURSIVE interpret_escaped_string(_)
interpret_escaped_string(s) ==
  LET ok(text) == [ok |-> TRUE, s |-> text, err |-> ""]
      bad(e) == [ok |-> FALSE, s |-> "", err |-> e]
      then(c, rest) == LET r == interpret_escaped_string(rest)
                       IN IF r.ok THEN ok(c \o r.s) ELSE r
  IN IF Len(s) = 0 THEN ok("")
     ELSE IF Char(s, 1) # "\\" THEN then(Char(s, 1), Tail(s))
     ELSE IF Len(s) = 1 THEN bad("escape at end of statement")
     ELSE LET c == Char(s, 2)
              rest == From(s, 3)
          IN IF c = "n" THEN then("\n", rest)
             ELSE IF c = "t" THEN then("\t", rest)
             ELSE IF c = "e" THEN then(Esc, rest)
             ELSE IF c = "\n" THEN interpret_escaped_string(rest)
             ELSE IF c \in {"u", "U", "x"} THEN
               (IF Len(rest) < 4 THEN bad("escape at end of statement")
                ELSE LET code == [k \in 1..4 |-> ToLower(Char(rest, k))]
                         wrong == {k \in 1..4 :
                                     ~(\E d \in 1..16 : Char(HexDigits, d) = code[k])}
                     IN IF wrong # {}
                        THEN bad("invalid character in a unicode escape: "
                                 \o code[CHOOSE k \in wrong : \A j \in wrong : k <= j])
                        ELSE then(Chr(HexValue(code[1] \o code[2] \o code[3] \o code[4], 0)),
                                  From(rest, 5)))
             ELSE then(c, rest)

\* Echo a string
echo(args, unsplit_args, st) ==
  IF Len(args) = 1 THEN Returned(st, 0, <<"">>)
  ELSE IF Len(args[1]) + 1 > Len(unsplit_args) THEN Panicked(st)
  ELSE LET rest == From(unsplit_args, Len(args[1]) + 2)
       IN IF args[2] = "-e" THEN
            (IF Len(rest) < 3 THEN Panicked(st)
             ELSE LET escaped == interpret_escaped_string(From(rest, 4))
                  IN IF ~escaped.ok
                     THEN Returned(st, 1,
                            <<"sesh: echo: invalid escape: " \o escaped.err>>)
                     ELSE Returned(st, 0, <<escaped.s>>))
          ELSE Returned(st, 0, <<rest>>)

\* Add an alias; the listing quotes name and replacement with backticks,
\* which a TLA+ string cannot hold and the printed lines here leave out
alias(args, unsplit_args, st) ==
  LET shown == SelectSeq(st.aliases, LAMBDA a : Len(args) = 1 \/ a.name = args[2])
  IN IF Len(args) <= 2
     THEN Returned(st, 0, [k \in 1..Len(shown) |-> shown[k].name \o ": " \o shown[k].to])
     ELSE Returned([st EXCEPT !.aliases = Append(@, Alias(args[2], args[3]))], 0, <<>>)

\* the loop of set over its arguments: it stops at the first argument
\* without "=", keeping the bindings pushed before it
RECURSIVE set_loop(_, _, _)
set_loop(vars, name0, st) ==
  IF Len(vars) = 0 THEN Returned(st, 0, <<>>)
  ELSE LET split == SplitOnce(Head(vars), "=")
       IN IF ~split.found
          THEN Returned(st, 2,
                 <<"sesh: " \o name0 \o ": var=name pairs required",
                   "sesh: " \o name0 \o ": usage: " \o name0
                     \o " name=value [name=value ...]">>)
          ELSE set_loop(Tail(vars), name0,
                 [st EXCEPT !.shell_env = Append(@, ShellVar(split.l, split.r))])

\* Set variable(s)
set(args, unsplit_args, st) ==
  IF Len(args) < 2
  THEN Returned(st, 1,
         <<"sesh: " \o args[1] \o ": at least one variable required",
           "sesh: " \o args[1] \o ": usage: " \o args[1]
             \o " name=value [name=value ...]">>)
  ELSE set_loop(Tail(args), args[1], st)

\* the loop of unset over a copy of the table: index i of the copy is
\* removed from the table itself, which earlier removals have shortened
RECURSIVE unset_loop(_, _, _, _)
unset_loop(clone, i, names, st) ==
  IF i >= Len(clone) THEN Returned(st, 0, <<>>)
  ELSE IF \E k \in 1..Len(names) : names[k] = clone[i + 1].name
       THEN (IF i >= Len(st.shell_env) THEN Panicked(st)
             ELSE unset_loop(clone, i + 1, names,
                             [st EXCEPT !.shell_env = RemoveAt(@, i + 1)]))
       ELSE unset_loop(clone, i + 1, names, st)

\* Unset variable(s)
unset(args, unsplit_args, st) ==
  IF Len(args) < 2
  THEN Returned(st, 1,
         <<"sesh: " \o args[1] \o ": at least one variable required",
           "sesh: " \o args[1] \o ": usage: " \o args[1] \o " name [name ...]">>)
  ELSE unset_loop(st.shell_env, 0, Tail(args), st)

\* Dump all variables.
dumpvars(args, unsplit_args, st) ==
  Returned(st, 0, [k \in 1..Len(st.shell_env) |->
                     st.shell_env[k].name \o ": \"" \o st.shell_env[k].value \o "\""])

\* the text a builtin stores for the focus
FocusText(focus) == IF focus.tag = "Str" THEN focus.s ELSE FocusFmt(focus)

\* Set a variable to the contents of the focus.
setf(args, unsplit_args, st) ==
  LET pushed == [k \in 1..(Len(args) - 1) |-> ShellVar(args[k + 1], FocusText(st.focus))]
  IN IF Len(args) < 2
     THEN Returned(st, 1,
            <<"sesh: " \o args[1] \o ": at least one variable required",
              "sesh: " \o args[1] \o ": usage: " \o args[1] \o " var [var ...]">>)
     ELSE Returned([st EXCEPT !.shell_env = @ \o pushed], 0, <<>>)

\* Set the focus to the contents of a variable
getf(args, unsplit_args, st) ==
  LET found == {k \in 1..Len(st.shell_env) : st.shell_env[k].name = args[2]}
      val == IF found = {} THEN ""
             ELSE st.shell_env[CHOOSE k \in found : \A j \in found : k <= j].value
  IN IF Len(args) # 2
     THEN Returned(st, 1,
            <<"sesh: " \o args[1] \o ": exactly one variable required",
              "sesh: " \o args[1] \o ": usage: " \o args[1] \o " var">>)
     ELSE Returned([st EXCEPT !.focus = FocusStr(val)], 0, <<>>)

\* Empty function that does nothing.
nop(args, unsplit_args, st) == Returned(st, 0, <<>>)

\* the switch of the decorative mode
gay(args, unsplit_args, st) == Returned([st EXCEPT !.in_mode = TRUE], 0, <<>>)

\* Exit the shell: the terminal handle is given up, the process ends
exit(args, unsplit_args, st) ==
  [state |-> [st EXCEPT !.raw_term = FALSE], status |-> 0, out |-> <<>>,
   end |-> "exit"]

\* std::env::home_dir
HomeDir == "/home"

\* PathBuf::push: an absolute path replaces the buffer
PathPush(path, name) ==
  IF StartsWith(name, "/") THEN name
  ELSE IF Len(path) = 0 \/ Char(path, Len(path)) = "/" THEN path \o name
  ELSE path \o "/" \o name

\* the path up to the separator before its last component
RECURSIVE CutName(_)
CutName(path) ==
  IF Len(path) = 0 \/ Char(path, Len(path)) = "/" THEN path
  ELSE CutName(SubSeq(path, 1, Len(path) - 1))

\* PathBuf::pop: the parent, the root stays
PathPop(path) ==
  IF Len(CutName(path)) <= 1 THEN CutName(path)
  ELSE SubSeq(CutName(path), 1, Len(CutName(path)) - 1)

\* Change the directory
cd(args, unsplit_args, st) ==
  IF Len(args) = 1 THEN Returned([st EXCEPT !.working_dir = HomeDir], 0, <<>>)
  ELSE IF args[2] = ".." THEN Returned([st EXCEPT !.working_dir = PathPop(@)], 0, <<>>)
  ELSE Returned([st EXCEPT !.working_dir = PathPush(@, args[2])], 0, <<>>)

\* the files that std::fs::read finds, by name: their text, or bytes that
\* are no UTF-8
Files ==
  [f |-> [utf8 |-> TRUE,
          text |-> "set a=9 b=8; alias ll ls; setf v; cd tmp; gay; unset PROMPT2"],
   g |-> [utf8 |-> TRUE, text |-> "echo $0 $1; x@y; set a=2"],
   h |-> [utf8 |-> TRUE, text |-> "ls; exit"],
   s |-> [utf8 |-> TRUE, text |-> "set a=3; source f; set b=4"],
   bin |-> [utf8 |-> FALSE, text |-> ""]]

\* Run a file: the returns before the file is evaluated
source_early(args, unsplit_args, st) ==
  IF Len(args) < 2
  THEN Returned(st, 1,
         <<"sesh: " \o args[1] \o ": filename argument required",
           "sesh: " \o args[1] \o ": usage: " \o args[1] \o " filename [arguments]">>)
  ELSE IF args[2] \notin DOMAIN Files
  THEN Returned(st, 2,
         <<"sesh: " \o args[1]
             \o ": error opening file: No such file or directory (os error 2)">>)
  ELSE Returned(st, 3,
         <<"sesh: " \o args[1]
             \o ": invalid UTF-8: invalid utf-8 sequence of 1 bytes from index 0">>)

\* Run a file: the file is read and is text
ReadsFile(args) ==
  /\ Len(args) >= 2
  /\ args[2] \in DOMAIN Files
  /\ Files[args[2]].utf8

\* Run a file: the copy of the state with the arguments bound to 0, 1, ...
state2(args, st) ==
  [st EXCEPT !.shell_env =
     @ \o [k \in 1..(Len(args) - 1) |-> ShellVar(IntToString(k - 1), args[k + 1])]]

\* the builtins that run to their end without calling eval
SimpleBuiltins ==
  {"cd", "echo", "alias", "set", "unset", "dumpvars", "setf", "getf", "()",
   "nop", "gay", "exit"}

\* the builtins that call eval on their arguments
ControlBuiltins == {"if", "while"}

\* the call builtin.1(statement_split, statement, state) of a simple builtin
CallBuiltin(name, args, unsplit_args, st) ==
  CASE name = "echo" -> echo(args, unsplit_args, st)
    [] name = "cd" -> cd(args, unsplit_args, st)
    [] name = "alias" -> alias(args, unsplit_args, st)
    [] name = "set" -> set(args, unsplit_args, st)
    [] name = "unset" -> unset(args, unsplit_args, st)
    [] name = "dumpvars" -> dumpvars(args, unsplit_args, st)
    [] name = "setf" -> setf(args, unsplit_args, st)
    [] name = "getf" -> getf(args, unsplit_args, st)
    [] name \in {"()", "nop"} -> nop(args, unsplit_args, st)
    [] name = "gay" -> gay(args, unsplit_args, st)
    [] name = "exit" -> exit(args, unsplit_args, st)

\* the loop that removes the STATUS bindings: index i of a copy is
\* swap-removed from the table itself; swap_remove panics past the end
RECURSIVE remove_status(_, _, _)
remove_status(clone, i, env) ==
  IF i >= Len(clone) THEN [env |-> env, panic |-> FALSE]
  ELSE IF clone[i + 1].name = "STATUS"
       THEN (IF i >= Len(env) THEN [env |-> env, panic |-> TRUE]
             ELSE remove_status(clone, i + 1, SwapRemove(env, i + 1)))
       ELSE remove_status(clone, i + 1, env)

\* a faulty variant for sensitivity checks: the old STATUS is kept
set_status_pushed(env, value) ==
  [env |-> Append(env, ShellVar("STATUS", value)), panic |-> FALSE]

\* the STATUS update that ends the builtin path and the external path
set_status(env, value) ==
  LET removed == remove_status(env, 0, env)
  IN IF removed.panic THEN removed
     ELSE [env |-> Append(removed.env, ShellVar("STATUS", value)), panic |-> FALSE]

\* a faulty variant for sensitivity checks: the status read is never 0
read_status_one(env) == [ok |-> TRUE, n |-> 1]

\* the STATUS that _if and test read: the table is reversed, the last
\* STATUS binding met wins, 0 without any; unwrap panics on a value that is
\* no number
read_status(env) ==
  LET rev == Reverse(env)
      found == {k \in 1..Len(rev) : rev[k].name = "STATUS"}
      last == CHOOSE k \in found : \A j \in found : j <= k
  IN IF found = {} THEN [ok |-> TRUE, n |-> 0] ELSE ParseI32(rev[last].value)

\* the table as _if and test leave it: reversed, then sorted by name
after_read_status(env) == SortBy(Reverse(env), NameCmp)

(***************************************************************************)
(* The state of the program.                                               *)
(***************************************************************************)

VARIABLES
  state,      \* struct State: shell_env, working_dir, aliases, focus,
              \* raw_term (whether the handle is Some), in_mode, entries, history
  raw_mode,   \* whether the terminal behind raw_term is in raw mode
  stack,      \* the calls of eval and of the control builtins in progress
  proc,       \* "running", "exited" (process::exit) or "panicked"
  hist_ptr,   \* main's history pointer
  calls,      \* per call of eval made by main: its text, the variable table
              \* it was given, the lines printed during it and the
              \* statements it dispatched
  ctl,        \* the control builtins that have returned, with their decisions
  arg,        \* the input of the function under study
  res,        \* its result
  pc,         \* the phase of a function-level specification
  pending,    \* the input that is still to come: the texts that main has
              \* to hand to eval (rc file, run-before expression, lines), or
              \* the bytes on stdin where the line editor is modelled
  editor      \* the locals of main's read loop: input, i0, line_escape,
              \* arrow_seq, in_arrow, curr_inp_hist, line_cursor, and in keys
              \* the bytes read since the prompt

vars ==
  <<state, raw_mode, stack, proc, hist_ptr, calls, ctl, arg, res, pc, pending,
    editor>>

\* the locals as main's loop declares them for a new line
EditorStart ==
  [input |-> "", i0 |-> 0, line_escape |-> FALSE, arrow_seq |-> <<0, 0>>,
   in_arrow |-> [on |-> FALSE, idx |-> 0], curr_inp_hist |-> "",
   line_cursor |-> 0, keys |-> <<>>]

\* the primary prompt that main sets
Prompt1 ==
  Esc \o "[32m$u@$h" \o Esc \o "[39m " \o Esc \o "[34m$P" \o Esc \o "[39m> "

\* the State that main constructs for an interactive run, with no history file
InitState ==
  [shell_env |-> <<ShellVar("PROMPT1", Prompt1), ShellVar("PROMPT2", "> "),
                   ShellVar("INTERACTIVE", "true")>>,
   working_dir |-> "/",
   aliases |-> <<>>,
   focus |-> FocusStr(""),
   raw_term |-> FALSE,
   in_mode |-> FALSE,
   entries |-> 0,
   history |-> <<>>]

\* eval at the head of its statement loop: the statements it has still to
\* run and, in prep, the locals that the loop computes for the first of them;
\* raw records whether raw mode was active when this call was entered
Loop(stmts, aliases, raw) ==
  [kind |-> "eval", stmts |-> stmts, prep |-> Prepare(Head(stmts), aliases),
   args |-> <<>>, stage |-> "", hist |-> <<>>, raw |-> raw]

\* a faulty variant for sensitivity checks: the statements are split from
\* the text as written
EvalFrameAsWritten(text, st, raw) ==
  Loop(split_statements(remove_comments(text)), st.aliases, raw)

\* a call of eval: comments removed, variables substituted, statements split
EvalFrame(text, st, raw) ==
  Loop(split_statements(
         substitute_vars(remove_comments(text), st.shell_env, st.focus)),
       st.aliases, raw)

\* a call of _if or _while in progress, waiting for the eval it called;
\* hist records what it saw and decided:
\*   "cond:<v>" the STATUS binding after the condition (none, many)
\*   "eval:<k>" the call of eval on args[k]
HandlerFrame(kind, args, stage, hist) ==
  [kind |-> kind, stmts |-> <<>>, prep |-> NoStatement, args |-> args,
   stage |-> stage, hist |-> hist, raw |-> FALSE]

Top == stack[Len(stack)]

Running == proc = "running"

\* eval is at the head of its statement loop
AtStatement == Running /\ Len(stack) > 0 /\ Top.kind = "eval"

\* the statement of this turn of the loop
Cur == Head(Top.stmts)

\* the locals of this turn: tokens, redirection set, program name
Prep == Top.prep

\* the stack after the topmost call has returned
Pop(stk) == SubSeq(stk, 1, Len(stk) - 1)

\* the stack after `continue`: the next statement, prepared with the
\* aliases of the state the last one left, or the end of the loop
Continue(stk, aliases) ==
  IF Len(stk[Len(stk)].stmts) = 1 THEN Pop(stk)
  ELSE Append(Pop(stk), Loop(Tail(stk[Len(stk)].stmts), aliases,
                             stk[Len(stk)].raw))

\* println!
Emit(c, lines) == [c EXCEPT ![Len(c)].out = @ \o lines]

\* the record of a dispatched statement: the path taken, the program name,
\* the token list after the alias loop, the plain tokens before it, the
\* redirection set and the alias table of the moment
Dispatched(c, path, prep) ==
  [c EXCEPT ![Len(c)].execs =
     Append(@, [path |-> path, program_name |-> prep.program_name,
                argv |-> prep.statement_split, words |-> prep.words,
                indirects |-> prep.indirects, aliases |-> state.aliases])]

\* the record of a statement that the dispatcher has finished: the code
\* that the handler returned, the exit code of the child, or 127
Completed(c, code) == [c EXCEPT ![Len(c)].codes = Append(@, code)]

\* the record of a statement on the external path, with what became of the
\* spawn and of the child
Waited(c, result) ==
  [c EXCEPT ![Len(c)].execs[Len(c[Len(c)].execs)] = @ @@ [result |-> result]]

\* suspend_raw_mode and activate_raw_mode act when the handle is Some
Suspended(st, mode) == IF st.raw_term THEN FALSE ELSE mode
Activated(st, mode) == IF st.raw_term THEN TRUE ELSE mode

\* the STATUS binding of a table as text: its value, "none" or "many"
StatusText(env) ==
  LET found == {k \in 1..Len(env) : env[k].name = "STATUS"}
  IN IF found = {} THEN "none"
     ELSE IF Cardinality(found) > 1 THEN "many"
     ELSE env[CHOOSE k \in found : TRUE].value

(***************************************************************************)
(* main: the calls of eval.                                                *)
(***************************************************************************)

\* texts that bind variables and aliases
Setups ==
  {"set a=1", "set a=1; set ab=2", "set STATUS=5", "set a=-e", "set b=2 a=3",
   "alias ll \"ls -la\"", "alias a \"b x\"; alias b \"c y\"",
   "alias b \"c y\"; alias a \"b x\"", "alias echo nop", "exit"}

\* texts that use them
Probes ==
  {"", "()", "echo", "echo $a", "echo $ab", "echo $STATUS",
   "ll /tmp", "a z", "b", "set a=5; echo $a",
   "if (nop) (echo yes) (echo no)", "if set (echo yes) (echo no)",
   "if ls (echo yes) (echo no)", "if (nop)", "if ls (echo yes)",
   "while ls (echo x)", "while set (echo x)", "while ls",
   "source f", "source g x", "source h", "source s; echo after", "source",
   "source nofile", "source bin", "cd", "cd tmp; cd ..; cd /etc",   "ls 1@out 3@x", "1@out ls", "ls 1@a 1@b 2@1"}

\* the runs of the shell that the model follows: the texts that main hands
\* to eval, in order
Sessions ==
  {<<t, u>> : t \in Setups, u \in Probes}
    \cup {<<u, t>> : u \in {"ls", "set"}, t \in Probes}
    \cup {<<"set a=1", "set a=2 a=3", "set a=5", "echo $a">>,
          <<"set a=1", "set b=2", "set a=3", "echo $a">>,
          <<"alias echo nop", "set a=1", "echo $a">>,
          <<"set a=1", "set b=2", "set ab=2", "echo $ab">>,
          <<"ls 1@">>, <<"echo -e">>, <<"ls; echo after">>,
          <<"echo a; ls 3@x; echo b">>,
          <<"set; echo after">>, <<"getf a b; echo after; getf">>, <<"echo a; 1@out ls; echo b">>,
          <<"set c=1 c=1 c=1 c=1 c=1 c=1 c=1">>,
          <<"set a=1", "unset a", "echo $a">>,
          <<"ls;; # x">>,
          <<"echo a; echo \"user@host\"; echo b">>, <<"user@host">>,
          <<"set a=1; echo me@ 1@out; set a=2", "echo $a">>,
          <<"if (nop) (echo a@b); echo after">>,
          <<"set a=7; if (nop) (echo $a)">>,
          <<"set a=1", "if (set a=7) (echo $a)">>, <<"; # note\n echo a;;">>,
          <<"set a=1 b=2 c=3", "unset a b", "echo $b $c">>}

\* eval(&text, &mut state) called by main
CallEval(text, st) ==
  /\ stack' = <<EvalFrame(text, st, raw_mode)>>
  /\ calls' = Append(calls, [text |-> text, env |-> st.shell_env,
                             out |-> <<>>, execs |-> <<>>, codes |-> <<>>])

\* main evaluates the rc file or the run-before expression
RunBefore ==
  /\ Running /\ Len(stack) = 0 /\ ~state.raw_term
  /\ Len(pending) > 0
  /\ CallEval(Head(pending), state)
  /\ pending' = Tail(pending)
  /\ UNCHANGED <<state, raw_mode, proc, hist_ptr, ctl, arg, res, pc, editor>>

\* main sets the history pointer and puts the terminal in raw mode
IntoRawMode ==
  /\ Running /\ Len(stack) = 0 /\ ~state.raw_term
  /\ hist_ptr' = Len(state.history)
  /\ state' = [state EXCEPT !.raw_term = TRUE]
  /\ raw_mode' = TRUE
  /\ UNCHANGED <<stack, proc, calls, ctl, arg, res, pc, pending, editor>>

\* a faulty variant for sensitivity checks: the history pointer stays
\* where the arrows left it
SubmitKeepsPtr(input) ==
  /\ state' = [state EXCEPT !.history = Append(@, input), !.entries = @ + 1]
  /\ hist_ptr' = hist_ptr
  /\ CallEval(input, state)

\* what main does with a line that was read: history, pointer, counter, eval
Submit(input) ==
  /\ state' = [state EXCEPT !.history = Append(@, input), !.entries = @ + 1]
  /\ hist_ptr' = Len(state.history) + 1
  /\ CallEval(input, state)

\* the interactive loop reads a line and submits it
SubmitLine ==
  /\ Running /\ Len(stack) = 0 /\ state.raw_term
  /\ Len(pending) > 0
  /\ Submit(Head(pending))
  /\ pending' = Tail(pending)
  /\ UNCHANGED <<raw_mode, proc, ctl, arg, res, pc, editor>>

(***************************************************************************)
(* eval: one statement of the loop.                                        *)
(***************************************************************************)

\* the usage error of _if and _while: fewer than three arguments
ControlUsage(name, args, st) ==
  Returned(st, 1,
    <<IF name = "if"
      THEN "sesh: " \o args[1] \o ": usage: " \o args[1]
             \o " condition (statement) [ (else_statement) ]"
      ELSE "sesh: " \o args[1] \o ": usage: " \o args[1]
             \o " condition (statement)">>)

\* the statement is run by a builtin that does not call eval
RunsToEnd(prep) ==
  /\ prep.what = "builtin"
  /\ \/ prep.program_name \in SimpleBuiltins
     \/ /\ prep.program_name \in ControlBuiltins
        /\ Len(prep.statement_split) < 3
     \/ /\ prep.program_name = "source"
        /\ ~ReadsFile(prep.statement_split)

\* the statement is run by source, which calls eval on the text of a file
EntersSource(prep) ==
  /\ prep.what = "builtin"
  /\ prep.program_name = "source"
  /\ ReadsFile(prep.statement_split)

\* the statement is run by _if or _while, which calls eval
EntersControl(prep) ==
  /\ prep.what = "builtin"
  /\ prep.program_name \in ControlBuiltins
  /\ Len(prep.statement_split) >= 3

\* the warning that precedes the call of a builtin
IndirectWarning(prep) ==
  IF Len(prep.indirects) > 1
  THEN <<"sesh: warning: indirects ignored for builtin">> ELSE <<>>

\* the end of the builtin path: the STATUS update after the collection
BuiltinStatus(h, mode, env, status) ==
  [end |-> IF status.panic THEN "panic" ELSE "return",
   state |-> [h.state EXCEPT !.shell_env = IF status.panic THEN env ELSE status.env],
   raw_mode |-> Activated(h.state, mode), out |-> h.out,
   code |-> IntToString(h.status)]

\* the builtin path after the collection, which may have panicked
BuiltinCollected(h, mode, collected) ==
  IF collected.panic
  THEN [end |-> "panic", state |-> h.state, raw_mode |-> mode, out |-> h.out,
        code |-> ""]
  ELSE BuiltinStatus(h, mode, collected.env,
                     set_status(collected.env, IntToString(h.status)))

\* the builtin path of eval after the handler has given h: garbage
\* collection, raw mode, STATUS.  A panic of the handler or of the
\* collection leaves raw mode suspended.
BuiltinOutcome(h, mode) ==
  IF h.end # "return"
  THEN [end |-> h.end, state |-> h.state, raw_mode |-> mode, out |-> h.out,
        code |-> ""]
  ELSE BuiltinCollected(h, mode, garbage_collect_vars(h.state.shell_env))

\* the handler call of a statement that RunsToEnd
HandlerResult(prep, statement, st) ==
  IF prep.program_name \in ControlBuiltins
  THEN ControlUsage(prep.program_name, prep.statement_split, st)
  ELSE IF prep.program_name = "source"
  THEN source_early(prep.statement_split, statement, st)
  ELSE CallBuiltin(prep.program_name, prep.statement_split, statement, st)

\* the results of Command::spawn and Child::wait that the model draws from:
\* no process, exit code 0, exit code 1, death by a signal
SpawnResults == {"error", "exit0", "exit1", "signal"}

\* a faulty variant for sensitivity checks: a child that ended without an
\* exit code counts as a success
SpawnStatusNoSignal(result) ==
  IF result = "error" THEN "127"
  ELSE IF result = "exit1" THEN "1"
  ELSE "0"

\* the STATUS that the external path stores
SpawnStatus(result) ==
  IF result = "error" THEN "127"
  ELSE IF result = "exit0" THEN "0"
  ELSE IF result = "exit1" THEN "1"
  ELSE "255"

\* std::env::set_var panics on a name that is empty or holds "="
ExportPanics(env) ==
  \E k \in 1..Len(env) : env[k].name = "" \/ Contains(env[k].name, "=")

\* the wiring of the child's streams panics on a placeholder target
\* (todo!), on a file that cannot be opened (unwrap) and on descriptor -1
WiringPanics(indirects, opens_ok) ==
  \E k \in 1..Len(indirects) :
    \/ indirects[k].ind.t \in {"NextStatement", "PrevStatement"}
    \/ indirects[k].ind.t = "Path" /\ ~opens_ok
    \/ indirects[k].ind.t = "Fd" /\ indirects[k].ind.n = -1

\* a faulty variant for sensitivity checks: the statement loop goes on
\* after a spawn failure
ExternalStatusGoesOn(st, mode, result, status) ==
  [end |-> IF status.panic THEN "panic" ELSE "return",
   state |-> IF status.panic THEN st ELSE [st EXCEPT !.shell_env = status.env],
   raw_mode |-> Activated(st, mode),
   out |-> IF result = "error" THEN <<"sesh: error spawning program">> ELSE <<>>,
   code |-> SpawnStatus(result), result |-> result]

\* a faulty variant for sensitivity checks: the spawn-failure branch
\* returns without resuming raw mode
ExternalStatusNoResume(st, mode, result, status) ==
  IF status.panic
  THEN [end |-> "panic", state |-> st, raw_mode |-> Suspended(st, mode),
        out |-> <<>>, code |-> ""]
  ELSE [end |-> IF result = "error" THEN "abort" ELSE "return",
        state |-> [st EXCEPT !.shell_env = status.env],
        raw_mode |-> IF result = "error" THEN Suspended(st, mode)
                     ELSE Activated(st, mode),
        out |-> IF result = "error"
                THEN <<"sesh: error spawning program">> ELSE <<>>,
        code |-> SpawnStatus(result), result |-> result]

\* the end of the external path: the STATUS update
ExternalStatus(st, mode, result, status) ==
  IF status.panic
  THEN [end |-> "panic", state |-> st, raw_mode |-> Suspended(st, mode),
        out |-> <<>>, code |-> ""]
  ELSE [end |-> IF result = "error" THEN "abort" ELSE "return",
        state |-> [st EXCEPT !.shell_env = status.env],
        raw_mode |-> Activated(st, mode),
        out |-> IF result = "error"
                THEN <<"sesh: error spawning program">> ELSE <<>>,
        code |-> SpawnStatus(result), result |-> result]

\* the external path of eval for one result of the spawn
ExternalOutcome(prep, st, mode, result, opens_ok) ==
  IF ExportPanics(st.shell_env) \/ WiringPanics(prep.indirects, opens_ok)
  THEN [end |-> "panic", state |-> st, raw_mode |-> Suspended(st, mode),
        out |-> <<>>, code |-> ""]
  ELSE ExternalStatus(st, mode, result,
                      set_status(st.shell_env, SpawnStatus(result)))

\* the results that the spawn of a statement can have
Results(prep) == IF prep.what = "external" THEN SpawnResults ELSE {"exit0"}

\* whether the files of a statement's redirections can be opened
Opens(prep) ==
  IF /\ prep.what = "external"
     /\ \E k \in 1..Len(prep.indirects) : prep.indirects[k].ind.t = "Path"
  THEN BOOLEAN ELSE {TRUE}

\* how a statement that runs without calling eval ends
StmtOutcome(prep, statement, st, mode, result, opens_ok) ==
  IF prep.what = "panic"
  THEN [end |-> "panic", state |-> st, raw_mode |-> mode, out |-> <<>>,
        code |-> ""]
  ELSE IF RunsToEnd(prep)
  THEN BuiltinOutcome(HandlerResult(prep, statement, st), Suspended(st, mode))
  ELSE IF prep.what = "external"
  THEN ExternalOutcome(prep, st, mode, result, opens_ok)
  ELSE [end |-> "none", state |-> st, raw_mode |-> mode, out |-> <<>>,
        code |-> ""]

\* a faulty variant for sensitivity checks: the statement is skipped and
\* the loop goes on
ParseErrorGoesOn ==
  /\ AtStatement /\ Prep.what = "error"
  /\ calls' = Emit(calls, <<"sesh: " \o Prep.message \o "\r">>)
  /\ stack' = Continue(stack, state.aliases)
  /\ UNCHANGED <<state, raw_mode, proc, hist_ptr, ctl, arg, res, pc, pending, editor>>

\* a token is no valid redirection: diagnostic, eval returns
ParseError ==
  /\ AtStatement /\ Prep.what = "error"
  /\ calls' = Emit(calls, <<"sesh: " \o Prep.message \o "\r">>)
  /\ stack' = Pop(stack)
  /\ UNCHANGED <<state, raw_mode, proc, hist_ptr, ctl, arg, res, pc, pending, editor>>

\* the first token is a redirection: diagnostic, eval returns
ProgramNameIndirect ==
  /\ AtStatement /\ Prep.what = "indirect"
  /\ calls' = Emit(calls, <<"sesh: " \o Prep.message \o "\r">>)
  /\ stack' = Pop(stack)
  /\ UNCHANGED <<state, raw_mode, proc, hist_ptr, ctl, arg, res, pc, pending, editor>>

\* a faulty variant for sensitivity checks: an empty statement counts as a
\* success
StmtEmptySucceeds ==
  /\ AtStatement /\ Prep.what = "empty"
  /\ stack' = Continue(stack, state.aliases)
  /\ state' = [state EXCEPT !.shell_env = set_status(@, "0").env]
  /\ UNCHANGED <<raw_mode, proc, hist_ptr, calls, ctl, arg, res, pc, pending, editor>>

\* an empty statement is skipped
StmtEmpty ==
  /\ AtStatement /\ Prep.what = "empty"
  /\ stack' = Continue(stack, state.aliases)
  /\ UNCHANGED <<state, raw_mode, proc, hist_ptr, calls, ctl, arg, res, pc, pending, editor>>

\* a faulty variant for sensitivity checks: a handler's non-zero status
\* ends the call as a spawn failure does
BuiltinReturnsStops(o) ==
  /\ o.end = "return"
  /\ state' = o.state
  /\ raw_mode' = o.raw_mode
  /\ calls' = Completed(Emit(Dispatched(calls, "builtin", Prep),
                             IndirectWarning(Prep) \o o.out), o.code)
  /\ stack' = IF o.code = "0" THEN Continue(stack, o.state.aliases)
              ELSE Pop(stack)

\* the builtin path has ended in o
BuiltinReturns(o) ==
  /\ o.end = "return"
  /\ state' = o.state
  /\ raw_mode' = o.raw_mode
  /\ calls' = Completed(Emit(Dispatched(calls, "builtin", Prep),
                             IndirectWarning(Prep) \o o.out), o.code)
  /\ stack' = Continue(stack, o.state.aliases)

\* the builtin path, for a handler that returns
StmtBuiltin ==
  /\ AtStatement /\ RunsToEnd(Prep) /\ Prep.program_name # "exit"
  /\ BuiltinReturns(StmtOutcome(Prep, Cur, state, raw_mode, "exit0", TRUE))
  /\ UNCHANGED <<proc, hist_ptr, ctl, arg, res, pc, pending, editor>>

\* the exit builtin ends the process
StmtExit ==
  /\ AtStatement /\ Prep.what = "builtin" /\ Prep.program_name = "exit"
  /\ state' = exit(Prep.statement_split, Cur, state).state
  /\ raw_mode' = Suspended(state, raw_mode)
  /\ calls' = Emit(Dispatched(calls, "builtin", Prep), IndirectWarning(Prep))
  /\ proc' = "exited"
  /\ UNCHANGED <<stack, hist_ptr, ctl, arg, res, pc, pending, editor>>

\* the external path has ended in o
ExternalReturns(o) ==
  /\ o.end \in {"return", "abort"}
  /\ state' = o.state
  /\ raw_mode' = o.raw_mode
  /\ stack' = IF o.end = "abort" THEN Pop(stack)
              ELSE Continue(stack, state.aliases)
  /\ calls' = Completed(Emit(Waited(Dispatched(calls, "external", Prep),
                                     o.result), o.out),
                        o.code)

\* the external path: the child is spawned and waited for, or the spawn
\* fails and eval returns
StmtExternal ==
  /\ AtStatement /\ Prep.what = "external"
  /\ \E result \in Results(Prep), opens_ok \in Opens(Prep) :
       ExternalReturns(ExternalOutcome(Prep, state, raw_mode, result, opens_ok))
  /\ UNCHANGED <<proc, hist_ptr, ctl, arg, res, pc, pending, editor>>

\* the statement has ended in a panic
Panics(o) ==
  /\ o.end = "panic"
  /\ state' = o.state
  /\ raw_mode' = o.raw_mode

\* a statement that ends in a Rust panic: in the alias expansion, in a
\* handler, in the garbage collection, in the STATUS update or while the
\* child is set up
StmtPanic ==
  /\ AtStatement
  /\ \E result \in Results(Prep), opens_ok \in Opens(Prep) :
       Panics(StmtOutcome(Prep, Cur, state, raw_mode, result, opens_ok))
  /\ proc' = "panicked"
  /\ calls' = Dispatched(calls, "panic", Prep)
  /\ UNCHANGED <<stack, hist_ptr, ctl, arg, res, pc, pending, editor>>

(***************************************************************************)
(* The control builtins, which call eval on their arguments.               *)
(***************************************************************************)

\* eval calls _if or _while, which calls eval on its condition
ControlEnter ==
  /\ AtStatement /\ EntersControl(Prep)
  /\ raw_mode' = Suspended(state, raw_mode)
  /\ calls' = Emit(Dispatched(calls, "builtin", Prep), IndirectWarning(Prep))
  /\ stack' = stack \o
       <<HandlerFrame(Prep.program_name, Prep.statement_split, "cond", <<"eval:1">>),
         EvalFrame(Prep.statement_split[2], state, Suspended(state, raw_mode))>>
  /\ UNCHANGED <<state, proc, hist_ptr, ctl, arg, res, pc, pending, editor>>

\* the handler on top of the stack returns 0 to eval, which finishes the
\* builtin path and goes on with the statement after it
ControlReturn(hist) ==
  LET o == BuiltinOutcome(
             Returned([state EXCEPT !.shell_env = after_read_status(@)], 0, <<>>),
             raw_mode)
  IN /\ state' = o.state
     /\ raw_mode' = o.raw_mode
     /\ ctl' = [kind |-> Top.kind, args |-> Top.args, hist |-> hist]
     /\ IF o.end = "panic"
        THEN proc' = "panicked" /\ stack' = stack /\ calls' = calls
        ELSE /\ proc' = proc
             /\ stack' = Continue(Pop(stack), state.aliases)
             /\ calls' = Completed(calls, o.code)

\* the handler on top of the stack calls eval on args[k] and waits in stage
ControlCall(k, stage, hist) ==
  LET st == [state EXCEPT !.shell_env = after_read_status(@)]
  IN /\ state' = st
     /\ stack' = [stack EXCEPT ![Len(stack)].stage = stage,
                               ![Len(stack)].hist = hist]
                 \o <<EvalFrame(Top.args[k + 1], st, raw_mode)>>
     /\ UNCHANGED <<raw_mode, proc, ctl, calls>>

\* the handler dies unwrapping a STATUS that is no number
ControlPanic ==
  /\ state' = [state EXCEPT !.shell_env = Reverse(@)]
  /\ proc' = "panicked"
  /\ UNCHANGED <<raw_mode, stack, ctl, calls>>

\* _if after its condition: the statement clause on status 0, the else
\* clause on another status when there are exactly eight arguments
IfAfterCond ==
  /\ Running /\ Len(stack) > 0 /\ Top.kind = "if" /\ Top.stage = "cond"
  /\ LET status == read_status(state.shell_env)
         hist == Append(Top.hist, "cond:" \o StatusText(state.shell_env))
     IN IF ~status.ok THEN ControlPanic
        ELSE IF status.n = 0 THEN ControlCall(2, "clause", Append(hist, "eval:2"))
        ELSE IF Len(Top.args) = 8
          THEN ControlCall(3, "clause", Append(hist, "eval:3"))
        ELSE ControlReturn(hist)
  /\ UNCHANGED <<hist_ptr, arg, res, pc, pending, editor>>

\* _if after the clause it chose
IfReturn ==
  /\ Running /\ Len(stack) > 0 /\ Top.kind = "if" /\ Top.stage = "clause"
  /\ LET o == BuiltinOutcome(Returned(state, 0, <<>>), raw_mode)
     IN /\ state' = o.state
        /\ raw_mode' = o.raw_mode
        /\ ctl' = [kind |-> Top.kind, args |-> Top.args, hist |-> Top.hist]
        /\ IF o.end = "panic"
           THEN proc' = "panicked" /\ stack' = stack /\ calls' = calls
           ELSE /\ proc' = proc
                /\ stack' = Continue(Pop(stack), state.aliases)
                /\ calls' = Completed(calls, o.code)
  /\ UNCHANGED <<hist_ptr, arg, res, pc, pending, editor>>

\* the number of calls of eval on the statement clause that hist records
Loops(hist) == Cardinality({k \in 1..Len(hist) : hist[k] = "eval:2"})

\* the bound on the turns of one while loop
MaxLoops == 2

\* _while after test: the statement clause on status 0, else the return
WhileAfterCond ==
  /\ Running /\ Len(stack) > 0 /\ Top.kind = "while" /\ Top.stage = "cond"
  /\ LET status == read_status(state.shell_env)
         hist == Append(Top.hist, "cond:" \o StatusText(state.shell_env))
     IN IF ~status.ok THEN ControlPanic
        ELSE IF status.n = 0
          THEN Loops(hist) < MaxLoops /\ ControlCall(2, "body", Append(hist, "eval:2"))
        ELSE ControlReturn(hist)
  /\ UNCHANGED <<hist_ptr, arg, res, pc, pending, editor>>

\* a faulty variant for sensitivity checks: _while returns after the
\* statement clause instead of testing again
WhileBodyOnce ==
  /\ Running /\ Len(stack) > 0 /\ Top.kind = "while" /\ Top.stage = "body"
  /\ ControlReturn(Top.hist)
  /\ UNCHANGED <<hist_ptr, arg, res, pc, pending, editor>>

\* _while after the statement clause: test is called again
WhileAfterBody ==
  /\ Running /\ Len(stack) > 0 /\ Top.kind = "while" /\ Top.stage = "body"
  /\ stack' = [stack EXCEPT ![Len(stack)].stage = "cond",
                            ![Len(stack)].hist = Append(@, "eval:1")]
              \o <<EvalFrame(Top.args[2], state, raw_mode)>>
  /\ UNCHANGED <<state, raw_mode, proc, hist_ptr, calls, ctl, arg, res, pc, pending, editor>>

\* a call of source in progress, waiting for the eval it called on state2;
\* caller is the state that the statement was dispatched with
SourceFrame(args, caller) ==
  HandlerFrame("source", args, "file", <<>>) @@ [caller |-> caller]

\* the builtin path calls source, which clones the state, binds the
\* arguments in the clone and calls eval on the file with the clone
SourceEnter ==
  /\ AtStatement /\ EntersSource(Prep)
  /\ raw_mode' = Suspended(state, raw_mode)
  /\ calls' = Emit(Dispatched(calls, "builtin", Prep), IndirectWarning(Prep))
  /\ state' = state2(Prep.statement_split, state)
  /\ stack' = stack \o
       <<SourceFrame(Prep.statement_split, state),
         EvalFrame(Files[Prep.statement_split[2]].text,
                   state2(Prep.statement_split, state),
                   Suspended(state, raw_mode))>>
  /\ UNCHANGED <<proc, hist_ptr, ctl, arg, res, pc, pending, editor>>

\* source returns 0 and st is the caller's state: eval finishes the builtin
\* path and goes on with the statement after it
SourceReturns(st) ==
  LET o == BuiltinOutcome(Returned(st, 0, <<>>), raw_mode)
  IN /\ state' = o.state
     /\ raw_mode' = o.raw_mode
     /\ IF o.end = "panic"
        THEN proc' = "panicked" /\ stack' = stack /\ calls' = calls
        ELSE /\ proc' = proc
             /\ stack' = Continue(Pop(stack), o.state.aliases)
             /\ calls' = Completed(calls, o.code)

\* a faulty variant for sensitivity checks: the file was evaluated on the
\* caller's state
SourceReturnShared ==
  /\ Running /\ Len(stack) > 0 /\ Top.kind = "source"
  /\ SourceReturns(state)
  /\ UNCHANGED <<hist_ptr, ctl, arg, res, pc, pending, editor>>

\* source after the file: state2 is dropped
SourceReturn ==
  /\ Running /\ Len(stack) > 0 /\ Top.kind = "source"
  /\ SourceReturns(Top.caller)
  /\ UNCHANGED <<hist_ptr, ctl, arg, res, pc, pending, editor>>

\* no control builtin has returned yet
NoCtl == [kind |-> "none", args |-> <<>>, hist |-> <<>>]

Init ==
  /\ pending \in Sessions
  /\ editor = EditorStart
  /\ state = InitState
  /\ raw_mode = FALSE
  /\ stack = <<>>
  /\ proc = "running"
  /\ hist_ptr = 0
  /\ calls = <<>>
  /\ ctl = NoCtl
  /\ arg = <<>>
  /\ res = <<>>
  /\ pc = "eval"

Next ==
  \/ RunBefore
  \/ IntoRawMode
  \/ SubmitLine
  \/ ParseError
  \/ ProgramNameIndirect
  \/ StmtEmpty
  \/ StmtBuiltin
  \/ StmtExit
  \/ StmtExternal
  \/ StmtPanic
  \/ ControlEnter
  \/ IfAfterCond
  \/ IfReturn
  \/ WhileAfterCond
  \/ WhileAfterBody
  \/ SourceEnter
  \/ SourceReturn

Spec == Init /\ [][Next]_vars

(***************************************************************************)
(* Properties of alias expansion.                                          *)
(***************************************************************************)

\* the statements dispatched so far, over all calls of eval
Execs == Concat([k \in 1..Len(calls) |-> calls[k].execs])

\* the statements handed to a process
Spawned == SelectSeq(Execs, LAMBDA e : e.path = "external")

\* the first alias of the table whose name is the first word of the statement
Matched(e) ==
  e.aliases[CHOOSE k \in 1..Len(e.aliases) :
              /\ e.aliases[k].name = e.words[1]
              /\ \A j \in 1..(k - 1) : e.aliases[j].name # e.words[1]]

HasMatch(e) == \E k \in 1..Len(e.aliases) : e.aliases[k].name = e.words[1]

\* the argv of the process: the program name, then the tokens after the first
SpawnArgv(e) == <<e.program_name>> \o Tail(e.argv)

\* C4: when the program name of a statement equals an alias name, the argv
\* of the spawned process is the first word of the replacement, the other
\* words of the replacement in order, then the original arguments in order.
C4_AliasArgv ==
  \A k \in 1..Len(Spawned) :
    HasMatch(Spawned[k]) =>
      SpawnArgv(Spawned[k]) =
        AliasWords(Matched(Spawned[k]).to) \o Tail(Spawned[k].words)

\* C5: alias expansion is applied at most once per statement: the program
\* name is the first word of the replacement of the matched alias, also when
\* that word is the name of another alias, wherever it stands in the table.
C5_ExpandedOnce ==
  \A k \in 1..Len(Execs) :
    HasMatch(Execs[k]) =>
      Execs[k].program_name = AliasWords(Matched(Execs[k]).to)[1]

(***************************************************************************)
(* Properties of set, substitution and echo.                               *)
(***************************************************************************)

\* the positions of a table that bind name
Bound(env, name) == {k \in 1..Len(env) : env[k].name = name}

\* the call of eval made last
Last == calls[Len(calls)]

\* the call of eval made before it
Prev == calls[Len(calls) - 1]

\* the last call of eval has ended: it returned or the process died in it
Ended == stack = <<>> \/ proc # "running"

\* the last statement that a call dispatched
LastExec(c) == c.execs[Len(c.execs)]

\* the call ended by running the builtin set on exactly one pair
SetCall(c) ==
  /\ Len(c.execs) > 0
  /\ LastExec(c).path = "builtin"
  /\ LastExec(c).program_name = "set"
  /\ LastExec(c).argv[1] = "set"
  /\ Len(LastExec(c).argv) = 2
  /\ SplitOnce(LastExec(c).argv[2], "=").found

\* the name and the value of that pair
SetName(c) == SplitOnce(LastExec(c).argv[2], "=").l
SetValue(c) == SplitOnce(LastExec(c).argv[2], "=").r

\* a call `set n=v` was followed by a call `echo $n`, which has ended
SetThenEcho ==
  /\ Len(calls) >= 2
  /\ SetCall(Prev)
  /\ Last.text = "echo $" \o SetName(Prev)
  /\ Ended

\* echo printed v and left STATUS 0
EchoedValue ==
  /\ proc = "running"
  /\ Last.out = <<SetValue(Prev)>>
  /\ StatusText(state.shell_env) = "0"

Plain(w) ==
  /\ Len(w) > 0
  /\ \A i \in 1..Len(w) :
       \/ Ord(Char(w, i)) \in 48..57
       \/ Ord(Char(w, i)) \in 65..90
       \/ Ord(Char(w, i)) \in 97..122

\* no other variable of the table has a name that n starts with
NoPrefixBound(n, env) ==
  \A k \in 1..Len(env) : env[k].name # n => ~StartsWith(n, env[k].name)

\* the cases of `set n=v` then `echo $n` in which echo prints v: n and v
\* are non-empty words of letters and digits, n is not STATUS, the table
\* given to the second call binds n once and binds no other name that n
\* starts with, and echo is not the name of an alias
PlainSetThenEcho ==
  /\ SetThenEcho
  /\ Plain(SetName(Prev)) /\ Plain(SetValue(Prev))
  /\ SetName(Prev) # "STATUS"
  /\ Cardinality(Bound(Last.env, SetName(Prev))) = 1
  /\ NoPrefixBound(SetName(Prev), Last.env)
  /\ \A k \in 1..Len(state.aliases) : state.aliases[k].name # "echo"

ControlRecords(kind) ==
  {[args |-> stack[k].args, hist |-> stack[k].hist, returned |-> FALSE] :
     k \in {j \in 1..Len(stack) : stack[j].kind = kind}}
  \cup (IF ctl.kind = kind
        THEN {[args |-> ctl.args, hist |-> ctl.hist, returned |-> TRUE]}
        ELSE {})

\* the record of a STATUS that is a number other than 0
NonZero(seen) ==
  /\ StartsWith(seen, "cond:")
  /\ seen \notin {"cond:0", "cond:none", "cond:many"}

\* C7: when the condition clause of if leaves STATUS 0, if evaluates the
\* statement clause exactly once and never the else clause.
C7_IfZeroRunsStatement ==
  \A r \in ControlRecords("if") :
    (Len(r.hist) >= 2 /\ r.hist[2] = "cond:0") =>
      r.hist = <<"eval:1", "cond:0", "eval:2">>

\* `if (nop) (echo yes) (echo no)` has returned and printed only yes
C7_Witness ==
  /\ ctl = [kind |-> "if", args |-> <<"if", "nop", "echo yes", "echo no">>,
            hist |-> <<"eval:1", "cond:0", "eval:2">>]
  /\ Last.text = "if (nop) (echo yes) (echo no)"
  /\ Last.out = <<"yes">>
  /\ stack = <<>>

\* C8: when the condition clause of if leaves a non-zero STATUS and an else
\* clause is given, if evaluates the else clause exactly once and not the
\* statement clause.
C8_IfNonZeroRunsElse ==
  \A r \in ControlRecords("if") :
    (Len(r.hist) >= 2 /\ NonZero(r.hist[2]) /\ Len(r.args) = 4) =>
      r.hist = <<"eval:1", r.hist[2], "eval:3">>

\* what a call of while may have seen and decided: test, and after each
\* test that left 0 the statement clause once and test again; after the
\* first test that left another number nothing but the return
WhileOrder(r) ==
  /\ r.hist[1] = "eval:1"
  /\ \A i \in 1..Len(r.hist) :
       /\ (r.hist[i] = "eval:1" /\ i < Len(r.hist)) =>
            StartsWith(r.hist[i + 1], "cond:")
       /\ r.hist[i] = "cond:0" => (i < Len(r.hist) /\ r.hist[i + 1] = "eval:2")
       /\ (r.hist[i] = "eval:2" /\ i < Len(r.hist)) => r.hist[i + 1] = "eval:1"
       /\ NonZero(r.hist[i]) => (i = Len(r.hist) /\ r.returned)
  /\ r.returned => NonZero(r.hist[Len(r.hist)])

\* C9: while evaluates cond; each time cond leaves STATUS 0 it evaluates
\* the statement clause once and tests cond again; the first time cond
\* leaves a non-zero STATUS it returns without evaluating the statement
\* clause again.
C9_WhileLoops == \A r \in ControlRecords("while") : WhileOrder(r)

\* `while ls (echo x)` has returned after two turns
C9_Witness ==
  /\ ctl.kind = "while"
  /\ ctl.hist = <<"eval:1", "cond:0", "eval:2", "eval:1", "cond:0", "eval:2",
                  "eval:1", "cond:1">>
  /\ Last.out = <<"x", "x">>
  /\ stack = <<>>

(***************************************************************************)
(* Properties of the dispatcher: how statements end.                       *)
(***************************************************************************)

\* C11: no command text given to eval makes the shell process panic: the
\* process is running, or it has ended through the exit builtin.
C11_OnlyExitEnds == proc # "panicked"

\* the last statement that the dispatcher has finished, in the last call
LastCode == Last.codes[Len(Last.codes)]

\* C12: after every statement that the dispatcher has executed, on the
\* builtin path or the external path, the table holds exactly one binding
\* named STATUS, and its value is the code of the statement finished last:
\* the code the handler returned, the exit code of the child, or 127.
C12_StatusIsLastCode ==
  (Len(calls) > 0 /\ Len(Last.codes) > 0 /\ proc = "running") =>
    /\ Cardinality(Bound(state.shell_env, "STATUS")) = 1
    /\ StatusText(state.shell_env) = LastCode

\* `if ls (echo yes) (echo no)`: ls has left 1, then if has returned 0
C12_Witness ==
  /\ Len(calls) > 0 /\ proc = "running"
  /\ Last.text = "if ls (echo yes) (echo no)"
  /\ Last.codes = <<"1", "0">>
  /\ Bound(state.shell_env, "STATUS") # {}
  /\ StatusText(state.shell_env) = "0"

\* the step is a spawn failure: eval prints its diagnostic
SpawnFails ==
  /\ AtStatement /\ Prep.what = "external"
  /\ Len(calls') = Len(calls)
  /\ calls'[Len(calls)].out = Last.out \o <<"sesh: error spawning program">>

\* C13: when the spawn of a statement's program fails, eval sets STATUS to
\* 127 and returns, so that no later statement of the call is executed, and
\* raw mode is active again when there is a terminal handle.
C13_SpawnFailureReturns ==
  [][SpawnFails =>
       /\ stack' = Pop(stack)
       /\ StatusText(state'.shell_env) = "127"
       /\ calls'[Len(calls)].codes = Append(Last.codes, "127")
       /\ state.raw_term => raw_mode']_vars

\* `ls; echo after` was submitted in raw mode, ls could not be spawned, and
\* eval has returned without running echo
C13_Witness ==
  /\ Len(calls) > 0 /\ Last.text = "ls; echo after"
  /\ stack = <<>> /\ proc = "running"
  /\ Last.codes = <<"127">>
  /\ Len(Last.execs) = 1
  /\ Last.out = <<"sesh: error spawning program">>
  /\ state.raw_term /\ raw_mode
  /\ StatusText(state.shell_env) = "127"

\* the statement at the head of the loop has a token with an unrecognised
\* stream digit, or its first token is a redirection
Malformed(tokens) ==
  \/ \E k \in 1..Len(tokens) : is_err(tokens[k])
  \/ ~is_statement(tokens[1])

\* C14: when the first token of a statement is a redirection token, or a
\* token has an unrecognised leading stream digit, eval prints one
\* diagnostic and returns: neither that statement nor a later one of the
\* call is dispatched, and the shell state stays as it was.
C14_MalformedReturns ==
  [][(AtStatement /\ Malformed(split_statement(Cur))) =>
       /\ stack' = Pop(stack)
       /\ state' = state
       /\ raw_mode' = raw_mode
       /\ calls'[Len(calls)].execs = Last.execs
       /\ calls'[Len(calls)].codes = Last.codes
       /\ Len(calls'[Len(calls)].out) = Len(Last.out) + 1]_vars

\* `echo a; ls 3@x; echo b` has printed a and the diagnostic, and eval has
\* returned with the STATUS that echo a left
C14_Witness ==
  /\ Len(calls) > 0 /\ Last.text = "echo a; ls 3@x; echo b"
  /\ stack = <<>> /\ proc = "running"
  /\ Last.out = <<"a", "sesh: unknown indirect from\r">>
  /\ Len(Last.execs) = 1
  /\ Last.codes = <<"0">>
  /\ StatusText(state.shell_env) = "0"

\* the argument counts for which set and getf print their usage
UsageError(prep) ==
  /\ prep.what = "builtin"
  /\ \/ prep.program_name = "set" /\ Len(prep.statement_split) < 2
     \/ prep.program_name = "getf" /\ Len(prep.statement_split) # 2

\* C15: when set is called without arguments or getf with a wrong number
\* of arguments, the handler returns 1, STATUS becomes 1 and the loop of
\* the same eval call goes on with the next statement.
C15_UsageErrorGoesOn ==
  [][(AtStatement /\ UsageError(Prep)) =>
       /\ proc' = "running"
       /\ stack' = Continue(stack, state'.aliases)
       /\ StatusText(state'.shell_env) = "1"
       /\ calls'[Len(calls)].codes = Append(Last.codes, "1")
       /\ state'.focus = state.focus /\ state'.aliases = state.aliases]_vars

\* `getf a b; echo after; getf` has run all three statements: usage, the
\* line of echo, usage again
C15_Witness ==
  /\ Len(calls) > 0 /\ Last.text = "getf a b; echo after; getf"
  /\ stack = <<>> /\ proc = "running"
  /\ Last.codes = <<"1", "0", "1">>
  /\ Len(Last.out) = 5 /\ Last.out[3] = "after"
  /\ StatusText(state.shell_env) = "1"

\* the calls of eval that return in this step and were entered with raw
\* mode active
ReturnedRaw ==
  {k \in (Len(stack') + 1)..Len(stack) : stack[k].kind = "eval" /\ stack[k].raw}

\* C16: when a call of eval that was entered with a raw terminal handle
\* present and raw mode active returns, raw mode is active, whatever path
\* its statements took.
C16_RawModeResumed ==
  [][(state.raw_term /\ proc' = "running" /\ ReturnedRaw # {}) => raw_mode']_vars

\* the line `echo a; ls 3@x; echo b`, submitted in raw mode, has taken the
\* builtin path and then the parse-error path, and raw mode is active
C16_Witness ==
  /\ state.raw_term /\ state.entries > 0 /\ Len(calls) > 0
  /\ Last.text = "echo a; ls 3@x; echo b"
  /\ state.history[Len(state.history)] = Last.text
  /\ stack = <<>> /\ proc = "running"
  /\ Len(Last.out) = 2
  /\ raw_mode

\* a call of _if or _while is in progress
InHandler == \E k \in 1..Len(stack) : stack[k].kind \in ControlBuiltins

\* C17: while the handler of if or while is executing, raw mode stays
\* suspended from its invocation until it returns, also after each eval
\* that it called has returned.
C17_SuspendedInHandler ==
  (proc = "running" /\ state.raw_term /\ InHandler) => ~raw_mode

\* the statement at the head of the loop calls unset with names
CallsUnset ==
  /\ AtStatement /\ Prep.what = "builtin" /\ Prep.program_name = "unset"
  /\ Len(Prep.statement_split) >= 2

\* the names that unset is called with
UnsetNames == {Prep.statement_split[k] : k \in 2..Len(Prep.statement_split)}

\* C23: after `unset n1 ... nk` has returned, the table holds no binding
\* of one of the names, and every binding of another name is still there
\* with its value (STATUS, which eval rewrites after the call, apart).
C23_UnsetRemovesNames ==
  [][(CallsUnset /\ proc' = "running") =>
       /\ \A k \in 1..Len(state'.shell_env) :
            state'.shell_env[k].name \notin UnsetNames
       /\ \A k \in 1..Len(state.shell_env) :
            state.shell_env[k].name \notin UnsetNames \cup {"STATUS"} =>
              \E j \in 1..Len(state'.shell_env) :
                state'.shell_env[j] = state.shell_env[k]]_vars

\* the exit code of a child as text, 255 for a child that had none
ChildCode(result) ==
  IF result = "exit0" THEN "0" ELSE IF result = "exit1" THEN "1" ELSE "255"

\* the statement at the head of the loop is run as a program in this step,
\* and the spawn succeeds
SpawnSucceeds ==
  /\ AtStatement /\ Prep.what = "external"
  /\ proc' = "running"
  /\ Len(calls'[Len(calls)].execs) = Len(Last.execs) + 1
  /\ LastExec(calls'[Len(calls)]).result # "error"

\* C29: when the spawn succeeds the dispatcher has the child's end before
\* it goes on: STATUS holds the child's exit code, or 255 for a child that
\* ended without one, and the loop continues with the next statement.
C29_WaitsForChild ==
  [][SpawnSucceeds =>
       /\ StatusText(state'.shell_env) = ChildCode(LastExec(calls'[Len(calls)]).result)
       /\ calls'[Len(calls)].codes =
            Append(Last.codes, ChildCode(LastExec(calls'[Len(calls)]).result))
       /\ stack' = Continue(stack, state'.aliases)]_vars

\* in `ls; echo after` the child of ls ended without an exit code, and echo
\* ran after it
C29_Witness ==
  /\ Len(calls) > 0 /\ Last.text = "ls; echo after"
  /\ stack = <<>> /\ proc = "running"
  /\ Len(Last.execs) = 2 /\ Last.execs[1].result = "signal"
  /\ Last.codes = <<"255", "0">>
  /\ Last.out = <<"after">>

\* C31: an empty statement invokes no builtin, spawns no process and
\* leaves the shell state, STATUS included, as it was, and eval goes on with
\* the next statement; `()` and `echo` without a terminal handle complete
\* with status 0.
C31_EmptyStatementSkipped ==
  [][/\ (AtStatement /\ Cur = "") =>
          /\ state' = state /\ raw_mode' = raw_mode /\ proc' = proc
          /\ calls' = calls
          /\ stack' = Continue(stack, state.aliases)
     /\ (AtStatement /\ Cur \in {"()", "echo"} /\ state.aliases = <<>>
           /\ ~state.raw_term) =>
          /\ proc' = "running"
          /\ calls'[Len(calls)].codes = Append(Last.codes, "0")
          /\ StatusText(state'.shell_env) = "0"]_vars

\* `ls;; # x`: ls ended with code 1, the two empty statements after it were
\* skipped, and STATUS is still 1
C31_Witness ==
  /\ Len(calls) > 0 /\ Last.text = "ls;; # x"
  /\ stack = <<>> /\ proc = "running"
  /\ Len(Last.execs) = 1 /\ Last.codes = <<"1">>
  /\ StatusText(state.shell_env) = "1"

\* the words of a text, set apart by single spaces: the group and
\* statement delimiters count as spaces
Spaced(text) ==
  " " \o Replace(Replace(Replace(Replace(text, "(", " "), ")", " "),
                         ";", " "), "\n", " ") \o " "

\* the text of a call as eval substitutes it on entry
SubstitutedAtEntry(c) ==
  substitute_vars(remove_comments(c.text), c.env, InitState.focus)

\* every word of the record x is a word of the text
FromText(text, x) ==
  \A j \in 1..Len(x.words) : Contains(Spaced(text), Spaced(x.words[j]))

\* the step dispatches a statement of the call in progress
Dispatches ==
  /\ Len(calls) > 0 /\ Len(calls') = Len(calls)
  /\ Len(calls'[Len(calls)].execs) = Len(Last.execs) + 1

\* the record of the statement that the step dispatches
NewExec == calls'[Len(calls)].execs[Len(Last.execs) + 1]

\* C32 (as amended): variables are substituted in the whole text of a call
\* of eval before any statement of it runs, and again in the text of a
\* clause when `if`/`while` call eval on it.  A statement of the call itself
\* runs with the words of the text as substituted at the start, whatever
\* earlier statements have bound; a statement of a clause differs from them
\* only where the text substituted at the start still holds a `$`.
C32_SubstitutedOncePerCall ==
  [][(Dispatches /\ Contains(Last.text, "$")) =>
       \/ FromText(SubstitutedAtEntry(Last), NewExec)
       \/ Len(stack) > 1 /\ Contains(SubstitutedAtEntry(Last), "$")]_vars

\* after `set a=1`, the call `if (set a=7) (echo $a)` has printed 1: the
\* clause kept the value that a had when the call started
C32_Witness ==
  /\ Len(calls) = 2 /\ Last.text = "if (set a=7) (echo $a)"
  /\ stack = <<>> /\ proc = "running"
  /\ Last.out = <<"1">>
  /\ \E k \in 1..Len(state.shell_env) :
       state.shell_env[k] = ShellVar("a", "7")

\* C32 (as stated): variables are substituted once, in the whole text of a
\* call of eval, before any statement runs: every word that a statement of
\* the call or of a clause of its `if`/`while` runs with is a word of the
\* text as it was substituted when the call started.
C32_SubstitutedOnce ==
  \A i \in 1..Len(calls) :
    Contains(calls[i].text, "$") =>
      \A k \in 1..Len(calls[i].execs) :
        FromText(SubstitutedAtEntry(calls[i]), calls[i].execs[k])

\* the bindings of a state, STATUS apart
Bindings(st) ==
  {st.shell_env[k] : k \in {j \in 1..Len(st.shell_env) :
                              st.shell_env[j].name # "STATUS"}}

\* source is about to return to the dispatcher, which goes on
SourceReturning ==
  /\ Running /\ Len(stack) > 0 /\ Top.kind = "source"
  /\ proc' = "running"

\* C35: the file of `source` is evaluated on a copy of the state: when the
\* call returns, the caller's bindings (STATUS apart, which is 0), aliases,
\* focus, working directory and mode flag are those of the moment of the
\* call.
C35_SourceKeepsState ==
  [][SourceReturning =>
       /\ Bindings(state') = Bindings(Top.caller)
       /\ StatusText(state'.shell_env) = "0"
       /\ state'.aliases = Top.caller.aliases
       /\ state'.focus = Top.caller.focus
       /\ state'.working_dir = Top.caller.working_dir
       /\ state'.in_mode = Top.caller.in_mode]_vars

\* after `set a=1`, `source f` has returned: the six statements of the file
\* ran, and a is 1, PROMPT2 is bound, and there is no alias, no new
\* directory and no mode
C35_Witness ==
  /\ Len(calls) = 2 /\ Last.text = "source f"
  /\ stack = <<>> /\ proc = "running"
  /\ Len(Last.execs) = 7 /\ Len(Last.codes) = 7
  /\ Bindings(state) =
       {ShellVar("a", "1"), ShellVar("PROMPT1", Prompt1),
        ShellVar("PROMPT2", "> "), ShellVar("INTERACTIVE", "true")}
  /\ state.aliases = <<>> /\ state.working_dir = "/" /\ ~state.in_mode

(***************************************************************************)
(* garbage_collect_vars on its own: the table is any sequence of bindings  *)
(* that pushes can build, the pass is applied to it once.                  *)
(***************************************************************************)

\* the bound on the length of the tables
MaxVars == 4

GCNames == {"a", "b", "c"}

GCValues == {"1", "2"}

\* the tables that pushes of bindings build
Tables ==
  UNION {[1..n -> {ShellVar(name, value) : name \in GCNames, value \in GCValues}] :
           n \in 0..MaxVars}

InitGC ==
  /\ state \in {[InitState EXCEPT !.shell_env = t] : t \in Tables}
  /\ raw_mode = FALSE
  /\ stack = <<>>
  /\ proc = "running"
  /\ hist_ptr = 0
  /\ calls = <<>>
  /\ ctl = NoCtl
  /\ arg = <<>>
  /\ res = <<>>
  /\ pc = "gc"
  /\ pending = <<>>
  /\ editor = EditorStart

\* garbage_collect_vars(state); arg keeps the table it was given
GarbageCollect ==
  /\ pc = "gc"
  /\ arg' = state.shell_env
  /\ LET collected == garbage_collect_vars(state.shell_env)
     IN IF collected.panic
        THEN proc' = "panicked" /\ state' = state
        ELSE proc' = proc /\ state' = [state EXCEPT !.shell_env = collected.env]
  /\ pc' = "done"
  /\ UNCHANGED <<raw_mode, stack, hist_ptr, calls, ctl, res, pending, editor>>

NextGC == GarbageCollect

SpecGC == InitGC /\ [][NextGC]_vars

\* the value of the binding of name that was pushed last
LastValue(env, name) ==
  env[CHOOSE k \in Bound(env, name) : \A j \in Bound(env, name) : j <= k].value

\* the table is sorted by name
SortedByName(env) ==
  \A k \in 1..(Len(env) - 1) : StrCmp(env[k].name, env[k + 1].name) <= 0

\* every name of the table before is bound once in the table after, to the
\* value pushed last, and no other name is bound
KeepsLatest(before, after) ==
  /\ \A k \in 1..Len(before) :
       /\ Cardinality(Bound(after, before[k].name)) = 1
       /\ LastValue(after, before[k].name) = LastValue(before, before[k].name)
  /\ \A k \in 1..Len(after) : Bound(before, after[k].name) # {}

\* a table of unique names followed by two bindings of one further name
TwoPushes(env) ==
  /\ Len(env) >= 2
  /\ env[Len(env)].name = env[Len(env) - 1].name
  /\ \A j, k \in 1..(Len(env) - 1) : j # k => env[j].name # env[k].name

\* C1: when (n, A) and then (n, B) are pushed on a table of unique names
\* without n and garbage_collect_vars runs, the pass does not panic, the
\* table binds n exactly once, to B, keeps the other bindings and is sorted
\* by name.
C1_TwoPushesKeepLater ==
  (pc = "done" /\ TwoPushes(arg)) =>
    /\ proc = "running"
    /\ Cardinality(Bound(state.shell_env, arg[Len(arg)].name)) = 1
    /\ LastValue(state.shell_env, arg[Len(arg)].name) = arg[Len(arg)].value
    /\ KeepsLatest(arg, state.shell_env)
    /\ SortedByName(state.shell_env)

\* the pass has run on two names and two different values of a third
C1_Witness ==
  /\ pc = "done" /\ TwoPushes(arg) /\ Len(arg) = 4
  /\ arg[3].value # arg[4].value
  /\ proc = "running"
  /\ Len(state.shell_env) = 3

\* C2: for every table, with any duplicates, garbage_collect_vars leaves
\* each name bound exactly once, to the value inserted last, loses no other
\* binding and leaves the table sorted by name.
C2_EveryTableKeepsLatest ==
  pc = "done" =>
    /\ proc = "running"
    /\ KeepsLatest(arg, state.shell_env)
    /\ SortedByName(state.shell_env)

(***************************************************************************)
(* The redirection set on its own: a statement is a program name followed  *)
(* by redirection tokens; eval tokenises it and builds the set.            *)
(***************************************************************************)

\* the bound on the redirection tokens of a statement
MaxTokens == 3

\* redirection tokens: stdin, stdout and stderr, to files, to descriptors
\* and to each other
IndirectTokens == {"0@a", "1@a", "1@b", "1@2", "2@a", "2@1", "2@7"}

\* words joined by single spaces
RECURSIVE JoinWords(_)
JoinWords(words) ==
  IF Len(words) = 0 THEN ""
  ELSE IF Len(words) = 1 THEN words[1]
  ELSE words[1] \o " " \o JoinWords(Tail(words))

IndirectStatements ==
  {JoinWords(<<"prog">> \o tokens) :
     tokens \in UNION {[1..n -> IndirectTokens] : n \in 0..MaxTokens}}

InitIndirect ==
  /\ arg \in IndirectStatements
  /\ res = <<>>
  /\ pc = "split"
  /\ state = InitState
  /\ raw_mode = FALSE
  /\ stack = <<>>
  /\ proc = "running"
  /\ hist_ptr = 0
  /\ calls = <<>>
  /\ ctl = NoCtl
  /\ pending = <<>>
  /\ editor = EditorStart

\* eval up to the redirection set: split_statement, filter, sort_by, dedup
BuildIndirects ==
  /\ pc = "split"
  /\ res' = Prepare(arg, state.aliases).indirects
  /\ pc' = "done"
  /\ UNCHANGED <<state, raw_mode, stack, proc, hist_ptr, calls, ctl, arg,
                 pending, editor>>

\* the Command before any of stdin, stdout, stderr was called on it
NoWiring == [stdin |-> NoIndirect, stdout |-> NoIndirect, stderr |-> NoIndirect]

\* one turn of the loop over the redirection set: the call of
\* Command::stdin, stdout or stderr that the directive's target asks for
wire_one(command, v) ==
  IF v.kind = "Stderr" /\ v.ind.t \in {"Fd", "Path", "Stdout"}
  THEN [command EXCEPT !.stderr = v.ind]
  ELSE IF v.kind = "Stdout" /\ v.ind.t \in {"Fd", "Path", "Stderr"}
  THEN [command EXCEPT !.stdout = v.ind]
  ELSE IF v.kind = "Stdin" /\ v.ind.t \in {"Fd", "Path"}
  THEN [command EXCEPT !.stdin = v.ind]
  ELSE command

\* the loop over the redirection set, in its order
RECURSIVE wire(_, _)
wire(command, indirects) ==
  IF Len(indirects) = 0 THEN command
  ELSE wire(wire_one(command, Head(indirects)), Tail(indirects))

\* eval wires the child's streams, every file opening
WireChild ==
  /\ pc = "done" /\ ~WiringPanics(res, TRUE)
  /\ res' = [indirects |-> res, command |-> wire(NoWiring, res)]
  /\ pc' = "wired"
  /\ UNCHANGED <<state, raw_mode, stack, proc, hist_ptr, calls, ctl, arg,
                 pending, editor>>

NextIndirect == BuildIndirects \/ WireChild

SpecIndirect == InitIndirect /\ [][NextIndirect]_vars

\* the directives of a redirection set for one stream
ForStream(indirects, kind) ==
  {k \in 1..Len(indirects) : indirects[k].kind = kind}

\* C3: after the sort and the dedup in eval the redirection set holds at
\* most one directive per stream, whatever the tokens were; two stdout
\* tokens collapse to one whether their targets are equal or not.
C3_OneDirectivePerStream ==
  pc = "done" =>
    \A kind \in {"Stdin", "Stdout", "Stderr"} :
      Cardinality(ForStream(res, kind)) <= 1

\* the redirection tokens of a statement for one stream, in its order
TokensFor(statement, kind) ==
  SelectSeq(split_statement(statement), LAMBDA v : v.kind = kind)

\* what the child's stream was wired to
WiredTo(command, kind) ==
  IF kind = "Stdin" THEN command.stdin
  ELSE IF kind = "Stdout" THEN command.stdout ELSE command.stderr

\* C24: when a statement carries two or more redirection tokens for one
\* stream with different targets, the child's stream is wired to the target
\* of the earliest of them.
C24_EarliestTargetWins ==
  pc = "wired" =>
    \A kind \in StreamKinds :
      LET tokens == TokensFor(arg, kind)
      IN (\E j, k \in 1..Len(tokens) : tokens[j] # tokens[k]) =>
           WiredTo(res.command, kind) = tokens[1].ind

(***************************************************************************)
(* main: the line editor.  Stdin is read in raw mode one byte per turn of  *)
(* the read loop; pending holds the bytes that are still to come.          *)
(***************************************************************************)

\* the up arrow: one entry back in the history, the buffer stashed before
\* a faulty variant for sensitivity checks: the pointer is decremented
\* without the check
UpArrowUnchecked(e, ptr, history) ==
  IF ptr >= 1
  THEN [ed |-> [e EXCEPT !.curr_inp_hist = e.input, !.input = history[ptr]],
        ptr |-> ptr - 1]
  ELSE [ed |-> e, ptr |-> ptr - 1]

UpArrow(e, ptr, history) ==
  IF ptr >= 1
  THEN [ed |-> [e EXCEPT !.curr_inp_hist = e.input, !.input = history[ptr]],
        ptr |-> ptr - 1]
  ELSE [ed |-> e, ptr |-> ptr]

\* the down arrow: one entry forward, or past the end back to the stash
DownArrow(e, ptr, history) ==
  IF ptr + 1 < Len(history)
  THEN [ed |-> [e EXCEPT !.input = history[ptr + 2]], ptr |-> ptr + 1]
  ELSE [ed |-> [e EXCEPT !.input = e.curr_inp_hist], ptr |-> Len(history)]

\* the left arrow moves the cursor or rings the bell
LeftArrow(e) ==
  IF e.line_cursor >= 1 THEN [e EXCEPT !.line_cursor = @ - 1] ELSE e

\* the right arrow moves the cursor or rings the bell
RightArrow(e) ==
  IF e.line_cursor + 1 < Len(e.input) THEN [e EXCEPT !.line_cursor = @ + 1]
  ELSE e

\* a byte read while in_arrow.0 holds: it is stored in arrow_seq, and the
\* second one completes the sequence, which is matched against the arrows
ArrowByte(e, b, ptr, history) ==
  LET idx == e.in_arrow.idx + 1
      seq == [e.arrow_seq EXCEPT ![idx] = b]
      e1 == [e EXCEPT !.arrow_seq = seq,
                      !.in_arrow = [on |-> idx <= 1, idx |-> idx]]
  IN IF idx <= 1 THEN [ed |-> e1, ptr |-> ptr]
     ELSE IF seq = <<91, 65>> THEN UpArrow(e1, ptr, history)
     ELSE IF seq = <<91, 66>> THEN DownArrow(e1, ptr, history)
     ELSE IF seq = <<91, 68>> THEN [ed |-> LeftArrow(e1), ptr |-> ptr]
     ELSE IF seq = <<91, 67>> THEN [ed |-> RightArrow(e1), ptr |-> ptr]
     ELSE [ed |-> e1, ptr |-> ptr]

\* a byte read outside an arrow sequence: the escape flag, then backspace
\* or a push of the byte on the buffer, the escape byte and the carriage
\* return included
PlainByte(e, b) ==
  [e EXCEPT !.line_escape = IF b = 92 THEN TRUE
                            ELSE IF b # 13 THEN FALSE ELSE @,
            !.input = IF b = 127
                      THEN (IF @ = "" THEN @ ELSE SubSeq(@, 1, Len(@) - 1))
                      ELSE @ \o Chr(b)]

\* one turn of the read loop: in_arrow is set when the byte before was an
\* escape, then a byte is read and handled
ReadByte ==
  /\ Running /\ Len(stack) = 0 /\ state.raw_term
  /\ Len(pending) > 0
  /\ editor.i0 # 13 \/ editor.line_escape
  /\ editor.i0 # 3
  /\ LET b == Head(pending)
         e0 == [editor EXCEPT !.i0 = b, !.keys = Append(@, b),
                              !.in_arrow = IF editor.i0 = 27
                                           THEN [on |-> TRUE, idx |-> 0]
                                           ELSE @]
         r == IF e0.in_arrow.on
              THEN ArrowByte(e0, b, hist_ptr, state.history)
              ELSE [ed |-> PlainByte(e0, b), ptr |-> hist_ptr]
     IN /\ editor' = r.ed
        /\ hist_ptr' = r.ptr
  /\ pending' = Tail(pending)
  /\ UNCHANGED <<state, raw_mode, stack, proc, calls, ctl, arg, res, pc>>

\* the read loop ends on a carriage return that is not escaped: the buffer
\* is trimmed, pushed on the history and handed to eval, and the loop's
\* locals are declared anew for the next line
SubmitInput ==
  /\ Running /\ Len(stack) = 0 /\ state.raw_term
  /\ editor.i0 = 13 /\ ~editor.line_escape
  /\ Submit(Trim(editor.input))
  /\ editor' = EditorStart
  /\ UNCHANGED <<raw_mode, proc, ctl, arg, res, pc, pending>>

\* a faulty variant for sensitivity checks: the line read so far is
\* submitted
CtrlCSubmits ==
  /\ Running /\ Len(stack) = 0 /\ state.raw_term
  /\ editor.i0 = 3
  /\ Submit(Trim(editor.input))
  /\ editor' = EditorStart
  /\ UNCHANGED <<raw_mode, proc, ctl, arg, res, pc, pending>>

\* the turn of the read loop after byte 3 was read: the buffer is cleared
\* and main's loop starts anew, with a prompt and freshly declared locals
CtrlC ==
  /\ Running /\ Len(stack) = 0 /\ state.raw_term
  /\ editor.i0 = 3
  /\ editor' = EditorStart
  /\ UNCHANGED <<state, raw_mode, stack, proc, hist_ptr, calls, ctl, arg, res,
                 pc, pending>>

\* the bytes the terminal sends for the keys
Up == <<27, 91, 65>>
Down == <<27, 91, 66>>
Enter == <<13>>
Keys == {Up, Down, Enter}

\* the number of keys pressed after the typed text
MaxKeys == 4

\* what is typed before the keys: lines with their carriage return, and a
\* draft
Typed ==
  {<<>>, <<13>>, <<97, 13>>, <<97, 13, 98, 13>>, <<97, 13, 98, 13, 99>>}

RECURSIVE Flatten(_)
Flatten(ks) == IF ks = <<>> THEN <<>> ELSE Head(ks) \o Flatten(Tail(ks))

\* sessions with ctrl+c (3), the backslash (92) and the backspace (127)
Edits ==
  {<<97, 3, 98, 13>>, <<97, 13, 98, 3, 13>>, <<97, 92, 3, 13, 98, 13>>,
   <<27, 3, 97, 13>>, <<97, 13, 27, 91, 65, 3, 27, 91, 65, 13>>,
   <<97, 92, 13, 98, 13>>, <<97, 92, 13, 13, 98, 13>>, <<97, 92, 13, 13>>,
   <<92, 127, 13, 97, 13>>, <<92, 98, 13>>, <<97, 13, 92, 13, 13, 13, 13>>,
   <<97, 98, 27, 91, 68, 99, 13>>, <<97, 27, 91, 67, 27, 91, 68, 13, 98, 13>>}

KeyStreams ==
  {t \o Flatten(ks) : t \in Typed,
                      ks \in UNION {[1..n -> Keys] : n \in 0..MaxKeys}}
    \cup Edits

\* main at its first prompt: no rc file, no history file, raw mode entered
InitEditor ==
  /\ pending \in KeyStreams
  /\ editor = EditorStart
  /\ state = [InitState EXCEPT !.raw_term = TRUE]
  /\ raw_mode = TRUE
  /\ stack = <<>>
  /\ proc = "running"
  /\ hist_ptr = 0
  /\ calls = <<>>
  /\ ctl = NoCtl
  /\ arg = <<>>
  /\ res = <<>>
  /\ pc = "eval"

NextEditor ==
  \/ ReadByte
  \/ CtrlC
  \/ SubmitInput
  \/ StmtEmpty
  \/ StmtExternal

SpecEditor == InitEditor /\ [][NextEditor]_vars

\* the line editor waits for a byte
AtPrompt == Running /\ Len(stack) = 0 /\ state.raw_term

\* C10: after the lines a and b were submitted, Up, Up, Down, Down pressed
\* on a blank fresh line show b, then a, then b, then the blank line again.
C10_HistoryWalk ==
  (AtPrompt /\ state.history = <<"a", "b">>) =>
    /\ editor.keys = Up => editor.input = "b"
    /\ editor.keys = Up \o Up => editor.input = "a"
    /\ editor.keys = Up \o Up \o Down => editor.input = "b"
    /\ editor.keys = Up \o Up \o Down \o Down => editor.input = ""

\* a step that changes the history, the entry counter or the calls of eval
Submits ==
  \/ state'.history # state.history
  \/ state'.entries # state.entries
  \/ Len(calls') # Len(calls)

\* C18: each submission of a line appends that line, and nothing else, to
\* the history, sets hist_ptr to the new length of the history and calls
\* eval once with the line; every line that the read loop ends on is
\* submitted, and the history never shrinks.
C18_SubmitOnce ==
  [][/\ Submits =>
          /\ AtPrompt /\ editor.i0 = 13 /\ ~editor.line_escape
          /\ state'.history = Append(state.history, Trim(editor.input))
          /\ state'.entries = state.entries + 1
          /\ hist_ptr' = Len(state'.history)
          /\ calls'[Len(calls')].text = Trim(editor.input)
          /\ Len(calls') = Len(calls) + 1
          /\ Len(stack') = 1
     /\ (AtPrompt /\ editor.i0 = 13 /\ ~editor.line_escape) => Submits
     /\ Len(calls') = Len(state'.history)]_vars

\* the second line has just been submitted, after the arrows had moved the
\* pointer: two entries, the pointer behind them, eval called on the line
C18_Witness ==
  /\ state.history = <<"a", "a">> /\ state.entries = 2
  /\ hist_ptr = 2
  /\ Len(calls) = 2 /\ calls[2].text = "a"
  /\ Len(stack) = 1 /\ Len(calls[2].execs) = 0
  /\ editor = EditorStart

\* C19: when byte 3 has been read, the buffer is discarded and nothing is
\* submitted: history and entry counter stay, eval is not called, and the
\* next read starts with the locals of a new line and an empty buffer.
C19_CtrlCDiscards ==
  [][(AtPrompt /\ editor.i0 = 3) =>
       /\ editor' = EditorStart
       /\ state' = state
       /\ calls' = calls /\ stack' = stack
       /\ pending' = pending]_vars

\* a, ctrl+c, b, return: the only line submitted is b
C19_Witness ==
  /\ editor.keys = <<>> /\ pending = <<>>
  /\ state.history = <<"b">> /\ state.entries = 1
  /\ Len(calls) = 1 /\ calls[1].text = "b"

\* the read loop reads a carriage return in this step
ReadsCR == AtPrompt /\ Len(pending) > 0 /\ Head(pending) = 13
             /\ pending' = Tail(pending)

\* the last character of the buffer is a backslash
EndsWithBackslash(input) ==
  Len(input) > 0 /\ Char(input, Len(input)) = "\\"

\* C20: a carriage return is a continuation, after which the read loop goes
\* on, exactly when the byte appended to the buffer immediately before it
\* was a backslash; every other carriage return, one that directly follows
\* a continuation included, ends the line.
C20_ContinuationAfterBackslash ==
  [][ReadsCR => (editor'.line_escape <=> EndsWithBackslash(editor.input))]_vars

\* the bytes of a line without the left and right arrow sequences
RECURSIVE WithoutSideArrows(_)
WithoutSideArrows(keys) ==
  IF keys = <<>> THEN <<>>
  ELSE IF Len(keys) >= 3 /\ SubSeq(keys, 1, 3) \in {<<27, 91, 68>>, <<27, 91, 67>>}
    THEN WithoutSideArrows(SubSeq(keys, 4, Len(keys)))
  ELSE <<Head(keys)>> \o WithoutSideArrows(Tail(keys))

\* the text that a sequence of bytes spells
RECURSIVE BytesText(_)
BytesText(bytes) ==
  IF bytes = <<>> THEN "" ELSE Chr(Head(bytes)) \o BytesText(Tail(bytes))

\* printable bytes, with at most a carriage return at the end
TypedLine(bytes) ==
  \A k \in 1..Len(bytes) :
    \/ bytes[k] >= 32 /\ bytes[k] <= 126 /\ bytes[k] # 92
    \/ bytes[k] = 13 /\ k = Len(bytes)

\* C21: a line made of printable bytes and of left and right arrow
\* sequences leaves in the buffer exactly the printable bytes typed, with the
\* carriage return that ends it, and leaves the history pointer behind the
\* newest entry.
C21_SideArrowsKeepBuffer ==
  (AtPrompt /\ TypedLine(WithoutSideArrows(editor.keys))) =>
    /\ editor.input = BytesText(WithoutSideArrows(editor.keys))
    /\ hist_ptr = Len(state.history)

(***************************************************************************)
(* The text functions on their own: split_statement, split_lines and       *)
(* remove_comments applied to every text over a few characters.            *)
(***************************************************************************)

\* the length of the longest text
MaxText == 4

\* the texts of at most n characters over a set of characters
RECURSIVE TextsOver(_, _)
TextsOver(chars, n) ==
  IF n = 0 THEN {""}
  ELSE LET shorter == TextsOver(chars, n - 1)
       IN shorter \cup {t \o c : t \in shorter, c \in chars}

\* the characters of the texts given to each function
StatementChars == {"a", "1", " ", "\\", "\"", "(", ")", "[", "]", "@"}
LineChars == {"a", "\n", "\\", ";"}
CommentChars == {"a", "#", "\n", "\\"}

InitText ==
  /\ \/ pc = "split_statement" /\ arg \in TextsOver(StatementChars, MaxText)
     \/ pc = "split_lines" /\ arg \in TextsOver(LineChars, MaxText)
     \/ pc = "remove_comments" /\ arg \in TextsOver(CommentChars, MaxText)
  /\ res = <<>>
  /\ state = InitState
  /\ raw_mode = FALSE
  /\ stack = <<>>
  /\ proc = "running"
  /\ hist_ptr = 0
  /\ calls = <<>>
  /\ ctl = NoCtl
  /\ pending = <<>>
  /\ editor = EditorStart

\* split_statement(arg)
Tokenize ==
  /\ pc = "split_statement"
  /\ res' = split_statement(arg)
  /\ pc' = "tokens"
  /\ UNCHANGED <<state, raw_mode, stack, proc, hist_ptr, calls, ctl, arg,
                 pending, editor>>

\* split_lines(arg)
SplitLines ==
  /\ pc = "split_lines"
  /\ res' = split_lines(arg)
  /\ pc' = "lines"
  /\ UNCHANGED <<state, raw_mode, stack, proc, hist_ptr, calls, ctl, arg,
                 pending, editor>>

\* remove_comments(arg)
RemoveComments ==
  /\ pc = "remove_comments"
  /\ res' = remove_comments(arg)
  /\ pc' = "uncommented"
  /\ UNCHANGED <<state, raw_mode, stack, proc, hist_ptr, calls, ctl, arg,
                 pending, editor>>

NextText == Tokenize \/ SplitLines \/ RemoveComments

SpecText == InitText /\ [][NextText]_vars

\* the characters that the tokenizer or is_indirect treats specially
SpecialChars == {" ", "\t", "\n", "\r", "\\", "\"", "'", "(", ")", "[", "]", "@"}

\* a word without whitespace, quote, group, backslash or @ characters
PlainWord(w) == \A k \in 1..Len(w) : Char(w, k) \notin SpecialChars

\* C22: for a single word w without whitespace, quote, group, backslash or
\* @ characters, split_statement(w) is the one plain token w, and
\* tokenizing that token again gives the same one token.
C22_PlainWordOneToken ==
  (pc = "tokens" /\ PlainWord(arg)) =>
    /\ res = <<IndirectRes("Statement", arg, NoIndirect)>>
    /\ split_statement(res[1].s) = res

\* the word a1a has been tokenized
C22_Witness ==
  /\ pc = "tokens" /\ arg = "a1a"
  /\ Len(res) = 1 /\ res[1].kind = "Statement" /\ res[1].s = "a1a"

\* the number of characters of a text that are in a set
Count(t, chars) == Cardinality({k \in 1..Len(t) : Char(t, k) \in chars})

\* a text of plain characters and spaces but for one backslash that is
\* directly followed by a quote or group-opening character
EscapedQuoteText(t) ==
  \E k \in 1..(Len(t) - 1) :
    /\ Char(t, k) = "\\" /\ Char(t, k + 1) \in QuoteChars
    /\ \A j \in 1..Len(t) : j \notin {k, k + 1} => Char(t, j) \in {"a", "1", " "}

\* C25: a quote or group-opening character directly after a backslash,
\* outside any quoted region, opens no region: every space of the statement
\* still separates two tokens.
C25_EscapedQuoteIsLiteral ==
  (pc = "tokens" /\ EscapedQuoteText(arg)) => Len(res) = 1 + Count(arg, {" "})

\* a text of plain characters and spaces with one opening bracket
OneBracketText(t) ==
  /\ Count(t, {"["}) = 1
  /\ \A k \in 1..Len(t) : Char(t, k) \in {"a", "1", " ", "["}

\* the tokens of a text whose bracket opens a group that runs to its end
WithGroup(t) == 1 + Count(SubSeq(t, 1, FindChar(t, "[")), {" "})

\* the tokens of a text whose bracket is a literal character
WithLiteral(t) == 1 + Count(t, {" "})

\* C26 as stated: a bracket begins a group only as one of the first two
\* characters of the statement; a later one is literal, and the spaces
\* after it separate tokens.
C26_BracketGroupAtStart ==
  (pc = "tokens" /\ OneBracketText(arg)) =>
    Len(res) = IF FindChar(arg, "[") <= 2 THEN WithGroup(arg)
               ELSE WithLiteral(arg)

\* C26 as the code has it: a bracket among the first two characters is
\* literal, and the spaces after it separate tokens; a later bracket
\* outside a quoted region begins a group.
C26_BracketGroupLater ==
  (pc = "tokens" /\ OneBracketText(arg)) =>
    Len(res) = IF FindChar(arg, "[") <= 2 THEN WithLiteral(arg)
               ELSE WithGroup(arg)

\* a bracket at the start with a space after it gave two tokens, and a
\* bracket as third character with a space after it gave one
C26_Witness ==
  /\ pc = "tokens"
  /\ \/ arg = "[ a" /\ Len(res) = 2 /\ res[1].s = "["
     \/ arg = "aa[ " /\ Len(res) = 1 /\ res[1].s = "aa["

\* the text from the first backslash on, empty when there is none
FromBackslash(t) ==
  IF FindChar(t, "\\") = 0 THEN "" ELSE From(t, FindChar(t, "\\"))

\* the text before the first backslash
BeforeBackslash(t) ==
  IF FindChar(t, "\\") = 0 THEN t ELSE SubSeq(t, 1, FindChar(t, "\\") - 1)

\* the lines without the empty ones at the end, the first line apart
RECURSIVE DropEmptyEnd(_)
DropEmptyEnd(ls) ==
  IF Len(ls) > 1 /\ ls[Len(ls)] = "" THEN DropEmptyEnd(SubSeq(ls, 1, Len(ls) - 1))
  ELSE ls

\* the logical lines of a text: the part before the first backslash cut
\* at its newlines, the rest joined whole to the last of these lines
LogicalLines(t) ==
  LET cut == Split(BeforeBackslash(t), "\n")
  IN DropEmptyEnd([cut EXCEPT ![Len(cut)] = @ \o FromBackslash(t)])

\* C27: split_lines ends a logical line at every newline before the first
\* backslash of its input and keeps every newline after the first backslash
\* in the line it is in, so that no line starts after the first backslash.
C27_BackslashMergesLines ==
  pc = "lines" => res = LogicalLines(arg)

\* a newline before the backslash has ended a line, the one after it has not
C27_Witness ==
  /\ pc = "lines" /\ arg = "a\n\\\n"
  /\ res = <<"a", "\\\n">>

\* a line without its comment: the text before the first # that no
\* backslash precedes
RECURSIVE CutComment(_, _)
CutComment(line, k) ==
  IF k > Len(line) THEN line
  ELSE IF Char(line, k) = "#" /\ (k = 1 \/ Char(line, k - 1) # "\\")
    THEN SubSeq(line, 1, k - 1)
  ELSE CutComment(line, k + 1)

\* lines joined by newlines
RECURSIVE JoinLines(_)
JoinLines(ls) ==
  IF Len(ls) = 1 THEN ls[1] ELSE ls[1] \o "\n" \o JoinLines(Tail(ls))

\* the text with the comment of each line removed
Uncommented(t) ==
  LET ls == Split(t, "\n")
  IN JoinLines([k \in 1..Len(ls) |-> CutComment(ls[k], 1)])

\* C28: remove_comments removes the text from each unescaped # up to, but
\* not including, the next newline and keeps everything else; a # preceded
\* by a backslash starts no comment.
C28_CommentsRemoved ==
  pc = "uncommented" => res = Uncommented(arg)

\* C30: with the lines a and b in the history and the draft c typed, k
\* presses of Up followed by as many of Down, which take the pointer past
\* the newest entry, leave the buffer equal to the draft.
C30_DraftRestored ==
  (AtPrompt /\ state.history = <<"a", "b">>
     /\ editor.keys \in {<<99>> \o Up \o Down, <<99>> \o Up \o Up \o Down \o Down}) =>
    /\ hist_ptr = Len(state.history)
    /\ editor.input = "c"

\* C33: the history pointer is always between 0 and the length of the
\* history, and a step that moves it to another entry reads that entry at
\* an index below the length.
C33_PointerInRange ==
  /\ [](hist_ptr \in 0..Len(state.history))
  /\ [][/\ hist_ptr' = hist_ptr - 1 =>
             /\ hist_ptr' < Len(state.history)
             /\ editor'.input = state.history[hist_ptr' + 1]
        /\ (hist_ptr' = hist_ptr + 1 /\ state'.history = state.history) =>
             \/ hist_ptr' = Len(state.history)
             \/ /\ hist_ptr' < Len(state.history)
                /\ editor'.input = state.history[hist_ptr' + 1]]_vars

\* two lines submitted, then Up, Up, Down: the pointer is at the second
\* entry, which is in the buffer
C33_Witness ==
  /\ AtPrompt
  /\ Len(state.history) = 2
  /\ editor.keys = Up \o Up \o Down
  /\ hist_ptr = 1
  /\ editor.input = state.history[2]

\* C34: when a new line is about to be read, the history pointer is the
\* length of the history.
C34_PointerAtEndOnNewLine ==
  (AtPrompt /\ editor = EditorStart) => hist_ptr = Len(state.history)

\* the token holds an "@" and the text before the first "@" is not 0, 1 or 2
UnknownFrom(token) ==
  /\ Contains(token, "@")
  /\ SubSeq(token, 1, FindChar(token, "@") - 1) \notin {"0", "1", "2"}

\* the statement has such a token, quoted or not
HasUnknownFrom(statement) ==
  \E k \in 1..Len(split_statement_out(statement)) :
    UnknownFrom(Trim(split_statement_out(statement)[k]))

\* C36: a statement with a token that holds an "@" after a text other than
\* 0, 1 or 2 is a parse error: eval prints `unknown indirect from` and
\* returns; neither that statement nor a later one of the call is run.
C36_UnknownFromReturns ==
  [][(AtStatement /\ HasUnknownFrom(Cur)) =>
       /\ calls' = Emit(calls, <<"sesh: unknown indirect from\r">>)
       /\ stack' = Pop(stack)
       /\ state' = state
       /\ proc' = proc]_vars

\* `echo a; echo "user@host"; echo b` has printed a and the diagnostic and
\* has returned: one statement was dispatched
C36_Witness ==
  /\ Len(calls) > 0 /\ Last.text = "echo a; echo \"user@host\"; echo b"
  /\ stack = <<>> /\ proc = "running"
  /\ Last.out = <<"a", "sesh: unknown indirect from\r">>
  /\ Len(Last.execs) = 1 /\ Last.codes = <<"0">>

====
